---- MODULE Spec2Model ----
(***************************************************************************)
(* Model of viagen's workspace access layer (src/src/files.ts) and of its   *)
(* change-aggregation routes (src/src/git.ts).                             *)
(*                                                                         *)
(* A JavaScript string is a sequence of one-character strings, so that     *)
(* startsWith, split, resolve and sort work on characters as the code      *)
(* does.  A file's data on disk is a sequence of bytes (two-digit hex      *)
(* strings).                                                               *)
(***************************************************************************)
EXTENDS Integers, Sequences, FiniteSets, TLC

VARIABLES fs, editable, res, inflight, lastOk, repoRoot, gitClient, pending, repo,
          logBuffer, logged

vars == <<fs, editable, res, inflight, lastOk, repoRoot, gitClient, pending, repo,
          logBuffer, logged>>

\* the state of registerGitRoutes and of the repository it looks at
gitVars == <<repoRoot, gitClient, pending, repo>>

\* the log buffer of the server and the number of messages logged so far
logVars == <<logBuffer, logged>>

----------------------------------------------------------------------------
(* Bounds *)

\* POST requests that may wait for their body at the same time
MaxInflight == 1

\* leading ".." segments of the traversal paths a client requests
MaxUp == 2

\* the messages logged at most, and the requests under way at once
MaxLogged == 102
MaxPending == 2

----------------------------------------------------------------------------
(* Strings *)

Slash == <<"/">>
Dot == <<".">>
DotDot == <<".", ".">>

S_src == <<"s", "r", "c">>
S_src2 == <<"s", "r", "c", "2">>
S_env == <<".", "e", "n", "v">>
S_nm == <<"n", "o", "d", "e", "_", "m", "o", "d", "u", "l", "e", "s">>
S_git == <<".", "g", "i", "t">>
S_a == <<"a">>
S_o == <<"o">>
S_r == <<"r">>

\* String.prototype.startsWith
StartsWith(s, pre) ==
  /\ Len(pre) <= Len(s)
  /\ SubSeq(s, 1, Len(pre)) = pre

\* UTF-16 code unit of each character the model uses
CharCode(c) ==
  CASE c = "." -> 46
    [] c = "/" -> 47
    [] c = "2" -> 50
    [] c = "B" -> 66
    [] c = "_" -> 95
    [] c = "a" -> 97
    [] c = "c" -> 99
    [] c = "d" -> 100
    [] c = "e" -> 101
    [] c = "g" -> 103
    [] c = "i" -> 105
    [] c = "l" -> 108
    [] c = "m" -> 109
    [] c = "n" -> 110
    [] c = "o" -> 111
    [] c = "r" -> 114
    [] c = "s" -> 115
    [] c = "t" -> 116
    [] c = "u" -> 117
    [] c = "v" -> 118
    [] c = "x" -> 120

\* s.split("/")
RECURSIVE SplitFrom(_, _, _)
SplitFrom(s, i, cur) ==
  IF i > Len(s) THEN <<cur>>
  ELSE IF s[i] = "/" THEN <<cur>> \o SplitFrom(s, i + 1, <<>>)
  ELSE SplitFrom(s, i + 1, Append(cur, s[i]))

Split(s) == SplitFrom(s, 1, <<>>)

\* segs.join("/")
RECURSIVE JoinSegs(_)
JoinSegs(segs) ==
  IF Len(segs) = 0 THEN <<>>
  ELSE IF Len(segs) = 1 THEN segs[1]
  ELSE segs[1] \o Slash \o JoinSegs(Tail(segs))

\* node:path normalizeString for an absolute path: "" and "." segments are
\* dropped, ".." removes the segment before it and is dropped at the root
RECURSIVE normalizeString(_, _)
normalizeString(segs, acc) ==
  IF Len(segs) = 0 THEN acc
  ELSE LET s == Head(segs) IN
    IF s = <<>> \/ s = Dot THEN normalizeString(Tail(segs), acc)
    ELSE IF s = DotDot
      THEN normalizeString(Tail(segs),
             IF Len(acc) = 0 THEN acc ELSE SubSeq(acc, 1, Len(acc) - 1))
    ELSE normalizeString(Tail(segs), Append(acc, s))

\* the segments of a normalized absolute path
AbsSegs(abs) == normalizeString(Split(abs), <<>>)

AbsString(segs) == Slash \o JoinSegs(segs)

\* path.resolve(from, to), from being absolute
resolve(from, to) ==
  IF StartsWith(to, Slash) THEN AbsString(AbsSegs(to))
  ELSE AbsString(AbsSegs(from \o Slash \o to))

\* path.join(dir, name)
join(dir, name) == AbsString(AbsSegs(dir \o Slash \o name))

RECURSIVE CommonLen(_, _)
CommonLen(a, b) ==
  IF Len(a) = 0 \/ Len(b) = 0 THEN 0
  ELSE IF Head(a) = Head(b) THEN 1 + CommonLen(Tail(a), Tail(b))
  ELSE 0

\* path.relative(from, to), both absolute
relative(from, to) ==
  LET f == AbsSegs(from)
      t == AbsSegs(to)
      k == CommonLen(f, t)
  IN JoinSegs([i \in 1..(Len(f) - k) |-> DotDot] \o SubSeq(t, k + 1, Len(t)))

\* the default comparison of Array.prototype.sort: by UTF-16 code units
RECURSIVE StrLess(_, _)
StrLess(a, b) ==
  IF Len(b) = 0 THEN FALSE
  ELSE IF Len(a) = 0 THEN TRUE
  ELSE IF Head(a) = Head(b) THEN StrLess(Tail(a), Tail(b))
  ELSE CharCode(Head(a)) < CharCode(Head(b))

RECURSIVE InsertSorted(_, _)
InsertSorted(x, sorted) ==
  IF Len(sorted) = 0 THEN <<x>>
  ELSE IF StrLess(x, Head(sorted)) THEN <<x>> \o sorted
  ELSE <<Head(sorted)>> \o InsertSorted(x, Tail(sorted))

\* Array.prototype.sort() without a comparator
RECURSIVE sort(_)
sort(xs) ==
  IF Len(xs) = 0 THEN <<>>
  ELSE InsertSorted(Head(xs), sort(Tail(xs)))

Range(xs) == {xs[i] : i \in 1..Len(xs)}

\* [...new Set(xs)]: the first occurrence of each value, in order
RECURSIVE NewSet(_, _)
NewSet(xs, seen) ==
  IF Len(xs) = 0 THEN <<>>
  ELSE IF Head(xs) \in seen THEN NewSet(Tail(xs), seen)
  ELSE <<Head(xs)>> \o NewSet(Tail(xs), seen \cup {Head(xs)})

----------------------------------------------------------------------------
(* UTF-8 *)

\* the bytes Buffer.from(str, "utf-8") produces for one UTF-16 code unit; an
\* unpaired surrogate is replaced by U+FFFD
EncodeUnit(u) ==
  CASE u = "x" -> <<"78">>
    [] u = "U+00E9" -> <<"C3", "A9">>
    [] u = "U+FFFD" -> <<"EF", "BF", "BD">>
    [] u = "U+D800" -> <<"EF", "BF", "BD">>

RECURSIVE Utf8Encode(_)
Utf8Encode(str) ==
  IF Len(str) = 0 THEN <<>>
  ELSE EncodeUnit(Head(str)) \o Utf8Encode(Tail(str))

\* buf.toString("utf-8"): every ill-formed or truncated sequence becomes
\* U+FFFD.  The wire unit "\\ud800" is the six ASCII characters of a JSON
\* escape and decodes to itself.
RECURSIVE Utf8Decode(_)
Utf8Decode(b) ==
  IF Len(b) = 0 THEN <<>>
  ELSE IF b[1] = "78" THEN <<"x">> \o Utf8Decode(Tail(b))
  ELSE IF b[1] = "0A" THEN <<"\n">> \o Utf8Decode(Tail(b))
  ELSE IF b[1] = "\\ud800" THEN <<"\\ud800">> \o Utf8Decode(Tail(b))
  ELSE IF b[1] = "C3" /\ Len(b) >= 2 /\ b[2] = "A9"
    THEN <<"U+00E9">> \o Utf8Decode(SubSeq(b, 3, Len(b)))
  ELSE IF b[1] = "EF" /\ Len(b) >= 3 /\ b[2] = "BF" /\ b[3] = "BD"
    THEN <<"U+FFFD">> \o Utf8Decode(SubSeq(b, 4, Len(b)))
  ELSE IF b[1] = "EF" /\ Len(b) >= 2 /\ b[2] = "BF"
    THEN <<"U+FFFD">> \o Utf8Decode(SubSeq(b, 3, Len(b)))
  ELSE <<"U+FFFD">> \o Utf8Decode(Tail(b))

\* the bytes of a string value inside the JSON text a client sends
\* (JSON.stringify escapes an unpaired surrogate, the rest is UTF-8)
WireUnit(u) == IF u = "U+D800" THEN <<"\\ud800">> ELSE EncodeUnit(u)

RECURSIVE JsonWire(_)
JsonWire(str) ==
  IF Len(str) = 0 THEN <<>>
  ELSE WireUnit(Head(str)) \o JsonWire(Tail(str))

\* JSON.parse of a string value: escapes become code units
JsonUnescape(str) ==
  [i \in 1..Len(str) |-> IF str[i] = "\\ud800" THEN "U+D800" ELSE str[i]]

\* readBody: body += chunk.toString() for each chunk; cut is the place
\* inside the value's bytes where one chunk ends and the next begins
readBody(wire, cut) ==
  Utf8Decode(SubSeq(wire, 1, cut)) \o Utf8Decode(SubSeq(wire, cut + 1, Len(wire)))

----------------------------------------------------------------------------
(* The filesystem *)

projectRoot == Slash \o S_r

N_root == Slash
N_r == projectRoot
N_o == Slash \o S_o
N_src == join(N_r, S_src)
N_a == join(N_src, S_a)
N_nm == join(N_src, S_nm)
N_nma == join(N_nm, S_a)
N_git == join(N_src, S_git)
N_gita == join(N_git, S_a)
N_src2 == join(N_r, S_src2)
N_env == join(N_r, S_env)

\* every absolute path the model's filesystem can hold, a directory's
\* entries in the order readdirSync reports them
Nodes == <<N_root, N_o, N_r, N_env, N_src, N_a, N_git, N_gita, N_nm, N_nma, N_src2>>

NodeSet == Range(Nodes)

Absent == [kind |-> "absent", data |-> <<>>]
Dir == [kind |-> "dir", data |-> <<>>]
File(d) == [kind |-> "file", data |-> d]
Other == [kind |-> "other", data |-> <<>>]

Parent(abs) ==
  LET segs == AbsSegs(abs)
  IN IF Len(segs) = 0 THEN Slash ELSE AbsString(SubSeq(segs, 1, Len(segs) - 1))

Basename(abs) ==
  LET segs == AbsSegs(abs)
  IN IF Len(segs) = 0 THEN <<>> ELSE segs[Len(segs)]

\* statSync(abs): the kind of the node, "absent" when statSync throws
statSync(fsx, abs) == IF abs \in NodeSet THEN fsx[abs].kind ELSE "absent"

\* every node but the root lies in an existing directory
TreeOk(fsx) ==
  /\ fsx[N_root].kind = "dir"
  /\ \A n \in NodeSet \ {N_root} :
       fsx[n].kind # "absent" => fsx[Parent(n)].kind = "dir"

\* readdirSync(dir, {withFileTypes: true}): the names of the entries
readdirSync(fsx, dir) ==
  LET present(n) == n # N_root /\ Parent(n) = dir /\ fsx[n].kind # "absent"
      kids == SelectSeq(Nodes, present)
  IN [i \in 1..Len(kids) |-> Basename(kids[i])]

RECURSIVE Flatten(_)
Flatten(lists) ==
  IF Len(lists) = 0 THEN <<>> ELSE Head(lists) \o Flatten(Tail(lists))

\* collectFiles(dir, projectRoot); a directory that cannot be read yields []
RECURSIVE collectFiles(_, _, _)
collectFiles(fsx, dir, root) ==
  IF statSync(fsx, dir) # "dir" THEN <<>>
  ELSE LET names == readdirSync(fsx, dir)
           one(name) ==
             LET fullPath == join(dir, name)
                 k == statSync(fsx, fullPath)
             IN IF k = "dir"
                  THEN IF name = S_nm \/ name = S_git THEN <<>>
                       ELSE collectFiles(fsx, fullPath, root)
                ELSE IF k = "file" THEN <<relative(root, fullPath)>>
                ELSE <<>>
       IN Flatten([i \in 1..Len(names) |-> one(names[i])])

resolveEditablePatterns(patterns, root) ==
  [i \in 1..Len(patterns) |-> resolve(root, patterns[i])]

\* resolveEditableFiles without the Set that removes duplicates
resolveEditableFiles_NoDedup(fsx, resolvedPatterns, root) ==
  LET one(abs) ==
        LET k == statSync(fsx, abs)
        IN IF k = "dir" THEN collectFiles(fsx, abs, root)
           ELSE IF k = "file" THEN <<relative(root, abs)>>
           ELSE <<>>
      files == Flatten([i \in 1..Len(resolvedPatterns) |-> one(resolvedPatterns[i])])
  IN sort(files)

resolveEditableFiles(fsx, resolvedPatterns, root) ==
  LET one(abs) ==
        LET k == statSync(fsx, abs)
        IN IF k = "dir" THEN collectFiles(fsx, abs, root)
           ELSE IF k = "file" THEN <<relative(root, abs)>>
           ELSE <<>>
      files == Flatten([i \in 1..Len(resolvedPatterns) |-> one(resolvedPatterns[i])])
  IN sort(NewSet(files, {}))

\* isPathAllowed without the refusal of absolute paths
isPathAllowed_NoAbsoluteCheck(fsx, requestedPath, resolvedPatterns, root) ==
  LET abs == resolve(root, requestedPath)
  IN \E i \in 1..Len(resolvedPatterns) :
       LET patternAbs == resolvedPatterns[i]
           k == statSync(fsx, patternAbs)
       IN IF k = "dir" THEN StartsWith(abs, patternAbs \o Slash)
          ELSE IF k = "absent"
            THEN StartsWith(abs, patternAbs \o Slash) \/ abs = patternAbs
          ELSE abs = patternAbs

\* isPathAllowed comparing with the directory's path without the separator
isPathAllowed_PrefixNoSeparator(fsx, requestedPath, resolvedPatterns, root) ==
  IF StartsWith(requestedPath, Slash) THEN FALSE
  ELSE LET abs == resolve(root, requestedPath)
       IN \E i \in 1..Len(resolvedPatterns) :
            LET patternAbs == resolvedPatterns[i]
                k == statSync(fsx, patternAbs)
            IN IF k = "dir" THEN StartsWith(abs, patternAbs)
               ELSE IF k = "absent"
                 THEN StartsWith(abs, patternAbs) \/ abs = patternAbs
               ELSE abs = patternAbs

\* isPathAllowed ignoring the patterns that are not on disk
isPathAllowed_FailClosed(fsx, requestedPath, resolvedPatterns, root) ==
  IF StartsWith(requestedPath, Slash) THEN FALSE
  ELSE LET abs == resolve(root, requestedPath)
       IN \E i \in 1..Len(resolvedPatterns) :
            LET patternAbs == resolvedPatterns[i]
                k == statSync(fsx, patternAbs)
            IN IF k = "dir" THEN StartsWith(abs, patternAbs \o Slash)
               ELSE IF k = "absent" THEN FALSE
               ELSE abs = patternAbs

isPathAllowed(fsx, requestedPath, resolvedPatterns, root) ==
  IF StartsWith(requestedPath, Slash) THEN FALSE
  ELSE LET abs == resolve(root, requestedPath)
       IN \E i \in 1..Len(resolvedPatterns) :
            LET patternAbs == resolvedPatterns[i]
                k == statSync(fsx, patternAbs)
            IN IF k = "dir" THEN StartsWith(abs, patternAbs \o Slash)
               ELSE IF k = "absent"
                 THEN StartsWith(abs, patternAbs \o Slash) \/ abs = patternAbs
               ELSE abs = patternAbs

\* readFileSync(abs, "utf-8") succeeds on a regular file only
CanRead(fsx, abs) == statSync(fsx, abs) = "file"

readFileSync(fsx, abs) == Utf8Decode(fsx[abs].data)

\* the error writeFileSync(abs, data, "utf-8") raises before it changes
\* anything, "" when it can open the file for writing
WriteError(fsx, abs, content) ==
  IF content.t # "string" THEN "ERR_INVALID_ARG_TYPE"
  ELSE IF statSync(fsx, abs) = "dir" THEN "EISDIR"
  ELSE IF abs \notin NodeSet \/ statSync(fsx, Parent(abs)) # "dir" THEN "ENOENT"
  ELSE IF statSync(fsx, abs) = "other" THEN "ENXIO"
  ELSE ""

----------------------------------------------------------------------------
(* Requests and responses *)

Undefined == [t |-> "undefined", s |-> <<>>]
Null == [t |-> "null", s |-> <<>>]
Str(s) == [t |-> "string", s |-> s]
\* a JSON value that is no string: a number other than 0, or 0
Truthy == [t |-> "truthy", s |-> <<>>]
Falsy == [t |-> "falsy", s |-> <<>>]

\* !v for a JavaScript value
IsFalsy(v) == v.t \in {"undefined", "null", "falsy"} \/ (v.t = "string" /\ v.s = <<>>)

P(a, b) == a \o Slash \o b

RECURSIVE Ups(_)
Ups(k) == IF k = 0 THEN <<>> ELSE DotDot \o Slash \o Ups(k - 1)

\* the paths clients ask for
RelativePaths ==
  { P(S_src, S_a), S_env, S_src, S_src2, P(S_src2, S_a), S_a,
    P(S_src, P(DotDot, S_src2)), P(S_src, P(DotDot, S_env)),
    P(DotDot, P(S_r, P(S_src, S_a))),
    P(S_src, S_nm), P(S_src, P(S_nm, S_a)),
    P(S_src, S_git), P(S_src, P(S_git, S_a)),
    P(Dot, P(S_src, S_a)), S_src \o Slash }
  \cup { Ups(k) \o S_o : k \in 1..MaxUp }

AbsolutePaths == { N_a, N_o, N_env, Slash, Slash \o S_src }

RequestPaths == RelativePaths \cup AbsolutePaths

\* the paths clients try to write
WritePaths ==
  { P(S_src, S_a), S_env, S_src, S_src2, P(S_src, P(DotDot, S_env)),
    P(S_src, P(DotDot, S_src2)), N_a, N_env }
  \cup { Ups(k) \o S_o : k \in 1..MaxUp }

\* the contents clients try to write
Contents == { <<>>, <<"U+00E9">>, <<"U+D800">> }

EmptyBody ==
  [fields |-> {}, error |-> "", status |-> "", path |-> <<>>,
   content |-> <<>>, files |-> <<>>]

\* no handler is running
NoRes ==
  [route |-> "none", method |-> "", path |-> Undefined, sent |-> Undefined,
   statusCode |-> 0, ended |-> 0, thrown |-> FALSE, body |-> EmptyBody,
   trace |-> <<>>]

Request(route, method, path, sent) ==
  [route |-> route, method |-> method, path |-> path, sent |-> sent,
   statusCode |-> 200, ended |-> 0, thrown |-> FALSE, body |-> EmptyBody,
   trace |-> <<>>]

Ev(op, arg, ok) == [op |-> op, arg |-> arg, ok |-> ok]

\* res.statusCode = code; res.end(JSON.stringify({ error }))
EndError(r, code, msg) ==
  [r EXCEPT !.statusCode = code, !.ended = @ + 1,
            !.body = [EmptyBody EXCEPT !.fields = {"error"}, !.error = msg]]

\* an exception leaves the handler: nothing ends the response
Throw(r) == [r EXCEPT !.thrown = TRUE]

\* GET /via/files
FilesRoute(fsx, resolvedPatterns, method) ==
  LET r == Request("files", method, Undefined, Undefined)
  IN IF method # "GET" THEN EndError(r, 405, "Method not allowed")
     ELSE [r EXCEPT !.ended = @ + 1,
             !.trace = <<Ev("resolveEditableFiles", <<>>, TRUE)>>,
             !.body = [EmptyBody EXCEPT !.fields = {"files"},
               !.files = resolveEditableFiles(fsx, resolvedPatterns, projectRoot)]]

\* FileGet reading the file before it asks isPathAllowed
FileGet_ReadBeforeCheck(fsx, resolvedPatterns, filePath) ==
  LET r == Request("file", "GET", filePath, Undefined)
  IN IF IsFalsy(filePath)
       THEN EndError(r, 400, "Missing path parameter")
     ELSE LET allowed == isPathAllowed(fsx, filePath.s, resolvedPatterns, projectRoot)
              abs == resolve(projectRoot, filePath.s)
              ok == CanRead(fsx, abs)
              r1 == [r EXCEPT !.trace = <<Ev("readFileSync", abs, ok),
                                          Ev("isPathAllowed", abs, allowed)>>]
          IN IF ~allowed THEN EndError(r1, 403, "Path not in editable list")
             ELSE IF ok
               THEN [r1 EXCEPT !.ended = @ + 1,
                       !.body = [EmptyBody EXCEPT !.fields = {"path", "content"},
                         !.path = filePath.s,
                         !.content = readFileSync(fsx, abs)]]
             ELSE EndError(r1, 404, "File not found")

\* FileGet answering 404 for a file it cannot read before it asks
\* isPathAllowed
FileGet_NotFoundFirst(fsx, resolvedPatterns, filePath) ==
  LET r == Request("file", "GET", filePath, Undefined)
  IN IF IsFalsy(filePath)
       THEN EndError(r, 400, "Missing path parameter")
     ELSE LET allowed == isPathAllowed(fsx, filePath.s, resolvedPatterns, projectRoot)
              abs == resolve(projectRoot, filePath.s)
              ok == CanRead(fsx, abs)
              r1 == [r EXCEPT !.trace = <<Ev("readFileSync", abs, ok)>>]
              r2 == [r1 EXCEPT !.trace = Append(@, Ev("isPathAllowed", abs, allowed))]
          IN IF ~ok THEN EndError(r1, 404, "File not found")
             ELSE IF ~allowed THEN EndError(r2, 403, "Path not in editable list")
             ELSE [r2 EXCEPT !.ended = @ + 1,
                     !.body = [EmptyBody EXCEPT !.fields = {"path", "content"},
                       !.path = filePath.s,
                       !.content = readFileSync(fsx, abs)]]

\* GET /via/file?path=
FileGet(fsx, resolvedPatterns, filePath) ==
  LET r == Request("file", "GET", filePath, Undefined)
  IN IF IsFalsy(filePath)
       THEN EndError(r, 400, "Missing path parameter")
     ELSE LET allowed == isPathAllowed(fsx, filePath.s, resolvedPatterns, projectRoot)
              abs == resolve(projectRoot, filePath.s)
              r1 == [r EXCEPT !.trace = <<Ev("isPathAllowed", abs, allowed)>>]
          IN IF ~allowed THEN EndError(r1, 403, "Path not in editable list")
             ELSE LET ok == CanRead(fsx, abs)
                      r2 == [r1 EXCEPT !.trace = Append(@, Ev("readFileSync", abs, ok))]
                  IN IF ok
                       THEN [r2 EXCEPT !.ended = @ + 1,
                               !.body = [EmptyBody EXCEPT !.fields = {"path", "content"},
                                 !.path = filePath.s,
                                 !.content = readFileSync(fsx, abs)]]
                     ELSE EndError(r2, 404, "File not found")

\* what the handler holds as body.content once the request body is read
Received(content, cut) ==
  IF content.t = "string"
    THEN Str(JsonUnescape(readBody(JsonWire(content.s), cut)))
  ELSE content

\* POST /via/file once readBody resolved; io is the error the disk raises
\* while the data is written ("" for none).  Yields the response and the
\* filesystem the handler leaves.
FilePost(fsx, resolvedPatterns, body, cut, io) ==
  LET r == Request("file", "POST", body.path, body.content)
      out(rr, f) == [res |-> rr, fs |-> f]
  IN IF body.json = "invalid"
       THEN out(EndError(r, 400, "Invalid JSON body"), fsx)
     ELSE IF body.json = "null" THEN out(Throw(r), fsx)
     ELSE LET writePath == IF body.json = "object" THEN body.path ELSE Undefined
              writeContent ==
                IF body.json = "object" THEN Received(body.content, cut) ELSE Undefined
          IN IF IsFalsy(writePath) \/ writeContent.t = "undefined"
               THEN out(EndError(r, 400, "Missing path or content"), fsx)
             ELSE IF writePath.t # "string" THEN out(Throw(r), fsx)
             ELSE LET allowed == isPathAllowed(fsx, writePath.s, resolvedPatterns, projectRoot)
                      abs == resolve(projectRoot, writePath.s)
                      r1 == [r EXCEPT !.trace = <<Ev("isPathAllowed", abs, allowed)>>]
                  IN IF ~allowed
                       THEN out(EndError(r1, 403, "Path not in editable list"), fsx)
                     ELSE LET early == WriteError(fsx, abs, writeContent)
                              err == IF early # "" THEN early ELSE io
                              r2 == [r1 EXCEPT !.trace =
                                       Append(@, Ev("writeFileSync", abs, err = ""))]
                          IN IF err = ""
                               THEN out([r2 EXCEPT !.ended = @ + 1,
                                       !.body = [EmptyBody EXCEPT
                                         !.fields = {"status", "path"},
                                         !.status = "ok", !.path = writePath.s]],
                                     [fsx EXCEPT ![abs] = File(Utf8Encode(writeContent.s))])
                             ELSE out(EndError(r2, 500, err),
                                     IF early = "" /\ err = "ENOSPC"
                                       THEN [fsx EXCEPT ![abs] = File(<<>>)]
                                     ELSE fsx)

\* any other method on /via/file
FileOther(method) ==
  EndError(Request("file", method, Undefined, Undefined), 405, "Method not allowed")

\* new URL(req.url ?? "/", `http://${req.headers.host ?? "localhost"}`), the
\* first statement of the handler of /via/file: a Host header that is there
\* and empty gives the base "http://", which is no URL, and the constructor
\* throws
UrlThrows(host) == host = <<>>

\* any other method on /via/file, from the first statement of the handler on
FileOtherFrom(host, method) ==
  IF UrlThrows(host) THEN Throw(Request("file", method, Undefined, Undefined))
  ELSE FileOther(method)

----------------------------------------------------------------------------
(* Configurations and initial filesystems *)

\* opts.editable
Configs ==
  { <<S_src, S_env>>, <<DotDot>>, <<S_src, P(S_src, S_a)>>, <<S_src, S_src>>,
    <<P(S_src, S_nm)>>, <<P(DotDot, S_o), S_src>>, <<Dot>> }

ConfigsRoutes == { <<S_src, S_env>>, <<DotDot>>, <<P(DotDot, S_o), S_src>> }

X == <<"78">>

MkFs(o, env, src, a, git, gita, nm, nma, src2) ==
  [n \in NodeSet |->
     CASE n = N_root -> Dir
       [] n = N_r -> Dir
       [] n = N_o -> o
       [] n = N_env -> env
       [] n = N_src -> src
       [] n = N_a -> a
       [] n = N_git -> git
       [] n = N_gita -> gita
       [] n = N_nm -> nm
       [] n = N_nma -> nma
       [] n = N_src2 -> src2]

\* the project trees the listing is checked on
FsList ==
  { f \in { MkFs(o, env, src, a, git, gita, nm, nma, src2) :
              o \in {Absent, File(X)}, env \in {Absent, File(X), Other},
              src \in {Absent, File(X), Dir}, a \in {Absent, File(X)},
              git \in {Absent, File(X), Dir}, gita \in {Absent, File(X)},
              nm \in {Absent, File(X), Dir}, nma \in {Absent, File(X)},
              src2 \in {Absent, File(X)} } : TreeOk(f) }

\* the project trees the read and write routes start from
FsRoutes ==
  { f \in { MkFs(o, env, src, a, Absent, Absent, Absent, Absent, Absent) :
              o \in {Absent, File(X)}, env \in {Absent, File(X)},
              src \in {Absent, Dir}, a \in {Absent, File(X)} } : TreeOk(f) }

NoWrite == [valid |-> FALSE, path |-> <<>>, content |-> <<>>]

----------------------------------------------------------------------------
(* The repository and what simple-git reports about it *)

NL == <<"\n">>

\* content.split("\n")
RECURSIVE SplitLinesFrom(_, _, _)
SplitLinesFrom(s, i, cur) ==
  IF i > Len(s) THEN <<cur>>
  ELSE IF s[i] = "\n" THEN <<cur>> \o SplitLinesFrom(s, i + 1, <<>>)
  ELSE SplitLinesFrom(s, i + 1, Append(cur, s[i]))

SplitLines(s) == SplitLinesFrom(s, 1, <<>>)

\* lines.join("\n")
RECURSIVE JoinLines(_)
JoinLines(lines) ==
  IF Len(lines) = 0 THEN <<>>
  ELSE IF Len(lines) = 1 THEN lines[1]
  ELSE lines[1] \o NL \o JoinLines(Tail(lines))

G_B == <<"B">>
G_a == S_a
G_u == P(S_src, S_a)
G_n == <<"n">>

\* the path a renamed file had before
G_o == S_o

\* the paths of the work tree, in the order git lists them
GitPaths == <<G_B, G_a, G_u>>

\* one path of the work tree: the two letters of git's short status (index,
\* work tree), whether git takes the file for binary, and the file on disk
Entry(xy, binary, file) == [xy |-> xy, binary |-> binary, file |-> file]

Y == <<"78", "0A">>

Clean == Entry("  ", FALSE, File(Y))

\* a repository: whether rev-parse finds one from the project root, its top
\* level, and the state of each path
Repository(isRepo, top, b, a, u) ==
  [isRepo |-> isRepo, top |-> top,
   entries |-> [p \in Range(GitPaths) |->
                  IF p = G_B THEN b ELSE IF p = G_a THEN a ELSE u]]

NoRepository == Repository(FALSE, projectRoot, Clean, Clean, Clean)

\* the files of the work tree by absolute path
WorkTree(w) ==
  [abs \in {join(w.top, p) : p \in Range(GitPaths)} |->
     w.entries[CHOOSE p \in Range(GitPaths) : join(w.top, p) = abs].file]

CanReadWork(w, abs) ==
  /\ abs \in DOMAIN WorkTree(w)
  /\ WorkTree(w)[abs].kind = "file"

\* git.status(): simple-git sorts the lines of git status --porcelain into
\* its lists by their two letters
Listed(w, xys) == SelectSeq(GitPaths, LAMBDA p : w.entries[p].xy \in xys)

StatusResult(w) ==
  [modified |-> Listed(w, {" M", "M ", "MM", "AM"}),
   created |-> Listed(w, {"A ", "AM"}),
   deleted |-> Listed(w, {"D "}),
   renamed |-> LET to == Listed(w, {"R "})
               IN [i \in 1..Len(to) |-> [from |-> G_o, to |-> to[i]]],
   not_added |-> Listed(w, {"??"})]

NoResult ==
  [modified |-> <<>>, created |-> <<>>, deleted |-> <<>>, renamed |-> <<>>,
   not_added |-> <<>>]

Arrow == <<" ", "=", ">", " ">>

\* the name git diff --stat prints for a path
StatName(w, p) == IF w.entries[p].xy = "R " THEN G_o \o Arrow \o p ELSE p

StatLine(file, ins, del, binary) ==
  [file |-> file, insertions |-> ins, deletions |-> del, binary |-> binary]

\* the line counts of the staged change of a path
StagedCounts(xy) ==
  CASE xy = "A " -> [ins |-> 2, del |-> 0]
    [] xy = "AM" -> [ins |-> 1, del |-> 0]
    [] xy = "D " -> [ins |-> 0, del |-> 1]
    [] OTHER -> [ins |-> 2, del |-> 1]

\* the line counts of the unstaged change of a path
UnstagedCounts(xy) == [ins |-> 1, del |-> 3]

HasStaged(w, p) == w.entries[p].xy \in {"M ", "MM", "A ", "AM", "D ", "R "}
HasUnstaged(w, p) == w.entries[p].xy \in {" M", "MM", "AM"}

\* git.diffSummary(["--cached"]).files and git.diffSummary().files
diffSummary(w, cached) ==
  LET ps == SelectSeq(GitPaths, LAMBDA p :
              IF cached THEN HasStaged(w, p) ELSE HasUnstaged(w, p))
  IN [i \in 1..Len(ps) |->
        LET e == w.entries[ps[i]]
            c == IF cached THEN StagedCounts(e.xy) ELSE UnstagedCounts(e.xy)
        IN IF e.binary THEN StatLine(StatName(w, ps[i]), 0, 0, TRUE)
           ELSE StatLine(StatName(w, ps[i]), c.ins, c.del, FALSE)]

\* the text git diff prints for one path
DiffText(w, p, cached) ==
  IF cached /\ HasStaged(w, p) THEN <<"diff --cached ">> \o p \o NL
  ELSE IF ~cached /\ HasUnstaged(w, p) THEN <<"diff ">> \o p \o NL
  ELSE <<>>

RECURSIVE ConcatAll(_)
ConcatAll(texts) ==
  IF Len(texts) = 0 THEN <<>> ELSE Head(texts) \o ConcatAll(Tail(texts))

\* the paths a pathspec selects: the file it names or the files below it
Selected(w, filePath) ==
  LET rel == relative(w.top, resolve(w.top, filePath))
  IN SelectSeq(GitPaths, LAMBDA p :
       rel = <<>> \/ p = rel \/ StartsWith(p, rel \o Slash))

\* git.diff(["--cached", "--", filePath]) and git.diff(["--", filePath])
diffPath(w, filePath, cached) ==
  LET ps == Selected(w, filePath)
  IN ConcatAll([i \in 1..Len(ps) |-> DiffText(w, ps[i], cached)])

\* git.diff(["--cached"]) and git.diff()
diffAll(w, cached) ==
  ConcatAll([i \in 1..Len(GitPaths) |-> DiffText(w, GitPaths[i], cached)])

----------------------------------------------------------------------------
(* git.ts: the pure parts *)

\* the rank of a character in the collation String.prototype.localeCompare
\* uses: punctuation before letters, letters by alphabet whatever their case
Primary(c) ==
  CASE c = " " -> 1
    [] c = "." -> 2
    [] c = "/" -> 3
    [] c = "=" -> 4
    [] c = ">" -> 5
    [] c = "a" -> 10
    [] c = "B" -> 11
    [] c = "c" -> 12
    [] c = "n" -> 13
    [] c = "o" -> 14
    [] c = "r" -> 15
    [] c = "s" -> 16

IsUpper(c) == c = "B"

\* a sorts before b by the letters alone
RECURSIVE LessByLetter(_, _)
LessByLetter(a, b) ==
  IF Len(b) = 0 THEN FALSE
  ELSE IF Len(a) = 0 THEN TRUE
  ELSE IF Primary(Head(a)) < Primary(Head(b)) THEN TRUE
  ELSE IF Primary(Head(b)) < Primary(Head(a)) THEN FALSE
  ELSE LessByLetter(Tail(a), Tail(b))

\* a and b having the same letters, a has the lower case where they differ
RECURSIVE LessByCase(_, _)
LessByCase(a, b) ==
  IF Len(a) = 0 \/ Len(b) = 0 THEN FALSE
  ELSE IF IsUpper(Head(a)) = IsUpper(Head(b)) THEN LessByCase(Tail(a), Tail(b))
  ELSE IsUpper(Head(b))

\* a.localeCompare(b): the letters decide, their case breaks a tie with the
\* lower case first
localeCompare(a, b) ==
  IF LessByLetter(a, b) THEN -1
  ELSE IF LessByLetter(b, a) THEN 1
  ELSE IF LessByCase(a, b) THEN -1
  ELSE IF LessByCase(b, a) THEN 1
  ELSE 0

\* stats.get(path) ?? { ins: 0, del: 0 }
StatsGet(stats, path) ==
  IF path \in DOMAIN stats THEN stats[path] ELSE [ins |-> 0, del |-> 0]

\* stats.set(path, value)
StatsSet(stats, path, value) ==
  [k \in DOMAIN stats \cup {path} |-> IF k = path THEN value ELSE stats[k]]

\* the push of mapStatus
ChangedFile(path, status, stats) ==
  [path |-> path, status |-> status,
   insertions |-> StatsGet(stats, path).ins,
   deletions |-> StatsGet(stats, path).del]

\* files.filter: the first entry of each path stays
RECURSIVE FirstOfPath(_, _)
FirstOfPath(files, seen) ==
  IF Len(files) = 0 THEN <<>>
  ELSE IF Head(files).path \in seen THEN FirstOfPath(Tail(files), seen)
  ELSE <<Head(files)>> \o FirstOfPath(Tail(files), seen \cup {Head(files).path})

RECURSIVE InsertByPath(_, _)
InsertByPath(f, sorted) ==
  IF Len(sorted) = 0 THEN <<f>>
  ELSE IF localeCompare(f.path, Head(sorted).path) < 0 THEN <<f>> \o sorted
  ELSE <<Head(sorted)>> \o InsertByPath(f, Tail(sorted))

\* .sort((a, b) => a.path.localeCompare(b.path)), a stable sort
RECURSIVE SortByPath(_)
SortByPath(files) ==
  IF Len(files) = 0 THEN <<>>
  ELSE InsertByPath(files[Len(files)], SortByPath(SubSeq(files, 1, Len(files) - 1)))

\* mapStatus that leaves the list in the order of the pushes
mapStatus_Unsorted(result, stats) ==
  LET each(ps, status) == [i \in 1..Len(ps) |-> ChangedFile(ps[i], status, stats)]
      to == [i \in 1..Len(result.renamed) |-> result.renamed[i].to]
      files == each(result.modified, "M") \o each(result.created, "A")
                 \o each(result.deleted, "D") \o each(to, "R")
                 \o each(result.not_added, "?")
  IN FirstOfPath(files, {})

mapStatus(result, stats) ==
  LET each(ps, status) == [i \in 1..Len(ps) |-> ChangedFile(ps[i], status, stats)]
      to == [i \in 1..Len(result.renamed) |-> result.renamed[i].to]
      files == each(result.modified, "M") \o each(result.created, "A")
                 \o each(result.deleted, "D") \o each(to, "R")
                 \o each(result.not_added, "?")
  IN SortByPath(FirstOfPath(files, {}))

\* for (const f of summary.files): binary files are skipped, the counts of
\* the others are added to what the map holds for their name
RECURSIVE AddSummary(_, _)
AddSummary(stats, files) ==
  IF Len(files) = 0 THEN stats
  ELSE LET f == Head(files)
           existing == StatsGet(stats, f.file)
       IN IF f.binary THEN AddSummary(stats, Tail(files))
          ELSE AddSummary(
                 StatsSet(stats, f.file,
                          [ins |-> existing.ins + f.insertions,
                           del |-> existing.del + f.deletions]),
                 Tail(files))

\* for (const filePath of untrackedFiles): a file that can be read counts
\* content.split("\n").length insertions
RECURSIVE AddUntracked(_, _, _, _)
AddUntracked(stats, w, root, untrackedFiles) ==
  IF Len(untrackedFiles) = 0 THEN stats
  ELSE LET filePath == Head(untrackedFiles)
           abs == join(root, filePath)
       IN IF CanReadWork(w, abs)
            THEN AddUntracked(
                   StatsSet(stats, filePath,
                            [ins |-> Len(SplitLines(readFileSync(WorkTree(w), abs))),
                             del |-> 0]),
                   w, root, Tail(untrackedFiles))
          ELSE AddUntracked(stats, w, root, Tail(untrackedFiles))

RECURSIVE SumOf(_, _, _)
SumOf(stats, keys, ins) ==
  IF keys = {} THEN 0
  ELSE LET k == CHOOSE x \in keys : TRUE
       IN (IF ins THEN stats[k].ins ELSE stats[k].del)
            + SumOf(stats, keys \ {k}, ins)

NoStats == [stats |-> <<>>, totalInsertions |-> 0, totalDeletions |-> 0]

\* getDiffStats that merges the summary that resolved when the other failed
getDiffStats_MergePartial(w, root, untrackedFiles, stagedOk, unstagedOk) ==
  LET a == IF stagedOk THEN AddSummary(<<>>, diffSummary(w, TRUE)) ELSE <<>>
      b == IF unstagedOk THEN AddSummary(a, diffSummary(w, FALSE)) ELSE a
  IN [stats |-> b,
      totalInsertions |-> SumOf(b, DOMAIN b, TRUE),
      totalDeletions |-> SumOf(b, DOMAIN b, FALSE)]

\* getDiffStats once Promise.all has settled; stagedOk and unstagedOk tell
\* whether each diffSummary call resolved
getDiffStats(w, root, untrackedFiles, stagedOk, unstagedOk) ==
  IF ~(stagedOk /\ unstagedOk) THEN NoStats
  ELSE LET merged == AddSummary(AddSummary(<<>>, diffSummary(w, TRUE)),
                                diffSummary(w, FALSE))
           stats == AddUntracked(merged, w, root, untrackedFiles)
       IN [stats |-> stats,
           totalInsertions |-> SumOf(stats, DOMAIN stats, TRUE),
           totalDeletions |-> SumOf(stats, DOMAIN stats, FALSE)]

\* the containment test of getFileDiff left out
InsideRepo_NoCheck(root, filePath) == TRUE

\* getFileDiff: the resolved path lies in repoRoot
InsideRepo(root, filePath) ==
  LET abs == resolve(root, filePath)
  IN StartsWith(abs, root \o Slash) \/ abs = root

\* the hunk header counts the newlines of the content, not its pieces
Synthesized_CountsNewlines(filePath, content) ==
  LET lines == SplitLines(content)
      added == JoinLines([i \in 1..Len(lines) |-> <<"+">> \o lines[i]])
  IN <<"--- /dev/null">> \o NL \o <<"+++ b/">> \o filePath \o NL
       \o <<"@@ -0,0 +1,">> \o <<ToString(Len(lines) - 1)>> \o <<" @@">> \o NL
       \o added

\* the diff getFileDiff makes up from the content of a file
Synthesized(filePath, content) ==
  LET lines == SplitLines(content)
      added == JoinLines([i \in 1..Len(lines) |-> <<"+">> \o lines[i]])
  IN <<"--- /dev/null">> \o NL \o <<"+++ b/">> \o filePath \o NL
       \o <<"@@ -0,0 +1,">> \o <<ToString(Len(lines))>> \o <<" @@">> \o NL
       \o added

\* getFileDiff after both git.diff calls resolved
getFileDiffTail(w, root, filePath, staged, unstaged) ==
  IF staged # <<>> /\ unstaged # <<>> THEN staged \o NL \o unstaged
  ELSE IF staged # <<>> THEN staged
  ELSE IF unstaged # <<>> THEN unstaged
  ELSE IF CanReadWork(w, join(root, filePath))
    THEN Synthesized(filePath, readFileSync(WorkTree(w), join(root, filePath)))
  ELSE <<>>

\* the unstaged diff put before the staged one
Combined_UnstagedFirst(staged, unstaged) ==
  IF staged # <<>> /\ unstaged # <<>> THEN unstaged \o NL \o staged
  ELSE IF staged # <<>> THEN staged
  ELSE unstaged

\* staged && unstaged ? staged + "\n" + unstaged : staged || unstaged || ""
Combined(staged, unstaged) ==
  IF staged # <<>> /\ unstaged # <<>> THEN staged \o NL \o unstaged
  ELSE IF staged # <<>> THEN staged
  ELSE unstaged

----------------------------------------------------------------------------
(* git.ts: the two routes, one step for each stretch between two awaits *)

\* simpleGit(repoRoot)
Client(root) == [t |-> "client", s |-> root]

NoCtx == [git |-> Null, root |-> Null]

GitBody ==
  [fields |-> {}, error |-> "", files |-> <<>>, git |-> FALSE,
   insertions |-> 0, deletions |-> 0, diff |-> <<>>, path |-> <<>>]

\* a request the routes are still working on: where it waits, the response
\* so far, and what the handler holds in its local variables
Waiting(pc, r, ctx, result, staged) ==
  [pc |-> pc, r |-> r, ctx |-> ctx, result |-> result, staged |-> staged]

Idle == Waiting("idle", NoRes, NoCtx, NoResult, <<>>)

\* the requests the routes can be working on at once, and the one slot used
\* while requests come one after another
Slots == 1..MaxPending
Sequential == {1}

\* the handler calls op and waits for it
Call(q, pc, op, arg) ==
  [q EXCEPT !.pc = pc, !.r.trace = Append(@, Ev(op, arg, TRUE))]

\* a call the handler waited for has resolved (ok) or was rejected
Settled(q, op, arg, ok) == [q EXCEPT !.r.trace = Append(@, Ev(op, arg, ok))]

\* what a step leaves behind: the request still waiting, or its response
Suspend(q) == [q |-> q, res |-> NoRes]
Finish(r) == [q |-> Idle, res |-> r]

\* res.end(JSON.stringify(body))
EndJson(r, body) == [r EXCEPT !.ended = @ + 1, !.body = body]

\* { files: [], git: false }
StatusNoGit == [GitBody EXCEPT !.fields = {"files", "git"}]

\* { diff: "", git: false }
DiffNoGit == [GitBody EXCEPT !.fields = {"diff", "git"}]

\* { diff, path: filePath }
DiffOfPath(diff, filePath) ==
  [GitBody EXCEPT !.fields = {"diff", "path"}, !.diff = diff, !.path = filePath]

\* { diff: combined }
DiffOfAll(diff) == [GitBody EXCEPT !.fields = {"diff"}, !.diff = diff]

\* { files, git: true, insertions, deletions }
StatusOf(files, insertions, deletions) ==
  [GitBody EXCEPT !.fields = {"files", "git", "insertions", "deletions"},
                  !.files = files, !.git = TRUE,
                  !.insertions = insertions, !.deletions = deletions]

\* ensureGit answers from the cache
Cached(gitv, rootv) == ~IsFalsy(gitv) /\ ~IsFalsy(rootv)

\* the callback of ensureGit().then on /via/git/status, up to its first await
StatusThen(q, ctx) ==
  IF ctx = NoCtx THEN Finish(EndJson(q.r, StatusNoGit))
  ELSE Suspend(Call([q EXCEPT !.ctx = ctx], "status", "git.status", <<>>))

\* the callback of ensureGit().then on /via/git/diff, up to its first await
DiffThen(q, ctx) ==
  LET filePath == q.r.path
  IN IF ctx = NoCtx THEN Finish(EndJson(q.r, DiffNoGit))
     ELSE IF ~IsFalsy(filePath)
       THEN IF StartsWith(filePath.s, Slash)
              THEN Finish(EndError(q.r, 400, "Absolute paths not allowed"))
            ELSE IF ~InsideRepo(ctx.root.s, filePath.s)
              THEN Finish(EndJson(q.r, DiffOfPath(<<>>, filePath.s)))
            ELSE Suspend(Call([q EXCEPT !.ctx = ctx], "diffStaged",
                              "git.diff", filePath.s))
     ELSE Suspend(Call([q EXCEPT !.ctx = ctx], "allStaged", "git.diff", <<>>))

Then(q, ctx) ==
  IF q.r.route = "git/status" THEN StatusThen(q, ctx) ELSE DiffThen(q, ctx)

\* a request arrives on one of the two routes
Arrive(route, method, filePath, gitv, rootv) ==
  LET r == Request(route, method, filePath, Undefined)
      q == Waiting("arrived", r, NoCtx, NoResult, <<>>)
  IN IF method # "GET" THEN Finish(EndError(r, 405, "Method not allowed"))
     ELSE IF Cached(gitv, rootv) THEN Then(q, [git |-> gitv, root |-> rootv])
     ELSE Suspend(Call(q, "revparse", "git.revparse", <<>>))

\* ensureGit without its early return when no root was found
Discovered_NoNullCheck(q, gitv, found) ==
  [cache |-> [git |-> Client(found.s), root |-> found],
   out |-> Then(q, [git |-> Client(found.s), root |-> found])]

\* findRepoRoot has settled inside ensureGit: found is the trimmed output
\* of rev-parse, or null
Discovered(q, gitv, found) ==
  IF IsFalsy(found) THEN [cache |-> [git |-> gitv, root |-> found],
                          out |-> Then(q, NoCtx)]
  ELSE [cache |-> [git |-> Client(found.s), root |-> found],
        out |-> Then(q, [git |-> Client(found.s), root |-> found])]

\* git.status() has settled; on success getDiffStats starts both summaries
StatusSettled(q, w, ok) ==
  IF ~ok THEN Finish(EndJson(Settled(q, "status settled", <<>>, ok).r, StatusNoGit))
  ELSE Suspend(Call(Call([Settled(q, "status settled", <<>>, ok)
                            EXCEPT !.result = StatusResult(w)],
                         "summary", "git.diffSummary", <<"--cached">>),
                    "summary", "git.diffSummary", <<>>))

\* the readFileSync calls getDiffStats makes for the untracked files
Reads(w, root, files) ==
  [i \in 1..Len(files) |->
     Ev("readFileSync", join(root, files[i]), CanReadWork(w, join(root, files[i])))]

\* Promise.all of the two summaries has settled
SummarySettled(q, w, stagedOk, unstagedOk) ==
  LET d == getDiffStats(w, q.ctx.root.s, q.result.not_added, stagedOk, unstagedOk)
      files == mapStatus(q.result, d.stats)
      settled == <<Ev("diffSummary settled", <<"--cached">>, stagedOk),
                   Ev("diffSummary settled", <<>>, unstagedOk)>>
      r == IF stagedOk /\ unstagedOk
             THEN [q.r EXCEPT !.trace = @ \o settled
                                \o Reads(w, q.ctx.root.s, q.result.not_added)]
           ELSE [q.r EXCEPT !.trace = @ \o settled]
  IN Finish(EndJson(r, StatusOf(files, d.totalInsertions, d.totalDeletions)))

\* git.diff(["--cached", "--", filePath]) has settled
DiffStagedSettled(q, w, ok) ==
  LET p == Settled(q, "diff settled", <<"--cached">>, ok)
  IN IF ~ok THEN Finish(EndJson(p.r, DiffOfPath(<<>>, q.r.path.s)))
     ELSE Suspend(Call([p EXCEPT !.staged = diffPath(w, q.r.path.s, TRUE)],
                       "diffUnstaged", "git.diff", q.r.path.s))

\* git.diff(["--", filePath]) has settled
DiffUnstagedSettled(q, w, ok) ==
  LET filePath == q.r.path.s
      root == q.ctx.root.s
      unstaged == diffPath(w, filePath, FALSE)
      p == Settled(q, "diff settled", <<>>, ok)
      r == IF ok /\ q.staged = <<>> /\ unstaged = <<>>
             THEN [p.r EXCEPT !.trace = Append(@, Ev("readFileSync",
                                  join(root, filePath), CanReadWork(w, join(root, filePath))))]
           ELSE p.r
  IN IF ~ok THEN Finish(EndJson(p.r, DiffOfPath(<<>>, filePath)))
     ELSE Finish(EndJson(r, DiffOfPath(
            getFileDiffTail(w, root, filePath, q.staged, unstaged), filePath)))

\* git.diff(["--cached"]) has settled
AllStagedSettled(q, w, ok) ==
  LET p == Settled(q, "diff settled", <<"--cached">>, ok)
  IN IF ~ok THEN Finish(EndJson(p.r, DiffOfAll(<<>>)))
     ELSE Suspend(Call([p EXCEPT !.staged = diffAll(w, TRUE)],
                       "allUnstaged", "git.diff", <<>>))

\* git.diff() has settled
AllUnstagedSettled(q, w, ok) ==
  LET p == Settled(q, "diff settled", <<>>, ok)
  IN IF ~ok THEN Finish(EndJson(p.r, DiffOfAll(<<>>)))
     ELSE Finish(EndJson(p.r, DiffOfAll(Combined(q.staged, diffAll(w, FALSE)))))

----------------------------------------------------------------------------
(* logger.ts and the log route *)

MAX_LOG_LINES == 100

\* the escape character, "\x1b", written as one unit
ESC == "ESC"

AnsiParams == {"0", "1", "2", "3", "4", "5", "6", "7", "8", "9", ";"}

\* where [0-9;]*m ends when it is matched from position j of s, or 0
RECURSIVE AnsiEnd(_, _)
AnsiEnd(s, j) ==
  IF j > Len(s) THEN 0
  ELSE IF s[j] = "m" THEN j
  ELSE IF s[j] \in AnsiParams THEN AnsiEnd(s, j + 1)
  ELSE 0

\* text.replace(ANSI_RE, "") from position i on
RECURSIVE replaceAnsiFrom(_, _)
replaceAnsiFrom(s, i) ==
  IF i > Len(s) THEN <<>>
  ELSE LET e == IF s[i] = ESC /\ i < Len(s) /\ s[i + 1] = "["
                  THEN AnsiEnd(s, i + 2) ELSE 0
       IN IF e > 0 THEN replaceAnsiFrom(s, e + 1)
          ELSE <<s[i]>> \o replaceAnsiFrom(s, i + 1)

replaceAnsi(s) == replaceAnsiFrom(s, 1)

\* level.toUpperCase()
toUpperCase(level) ==
  CASE level = "info" -> "INFO"
    [] level = "warn" -> "WARN"
    [] level = "error" -> "ERROR"

\* a LogBuffer as its constructor leaves it; file is what server.log holds
NewLogBuffer == [_entries |-> <<>>, logPath |-> Undefined, file |-> <<>>]

\* one line of server.log: `[${ts}] [${e.level.toUpperCase()}] ${e.text}`
LogLine(e) == [ts |-> e.timestamp, level |-> toUpperCase(e.level), text |-> e.text]

\* LogBuffer.flush
flush(b) ==
  IF b.logPath = Undefined THEN b
  ELSE [b EXCEPT !.file = [i \in 1..Len(b._entries) |-> LogLine(b._entries[i])]]

\* LogBuffer.init
init(b, root) ==
  flush([b EXCEPT !.logPath = Str(join(join(root, <<".viagen">>), <<"server.log">>))])

\* the oldest entry stays and the newest one is dropped
push_DropsNewest(b, level, text, now) ==
  LET added == Append(b._entries,
                 [level |-> level, text |-> replaceAnsi(text), timestamp |-> now])
  IN flush([b EXCEPT !._entries =
       IF Len(added) > MAX_LOG_LINES THEN SubSeq(added, 1, MAX_LOG_LINES)
       ELSE added])

\* LogBuffer.push
push(b, level, text, now) ==
  LET added == Append(b._entries,
                 [level |-> level, text |-> replaceAnsi(text), timestamp |-> now])
  IN flush([b EXCEPT !._entries =
       IF Len(added) > MAX_LOG_LINES THEN Tail(added) ELSE added])

\* LogBuffer.getEntries
getEntries(b) == b._entries

NaN == [nan |-> TRUE, n |-> 0]
Num(n) == [nan |-> FALSE, n |-> n]

Digit(c) ==
  CASE c = "0" -> 0 [] c = "1" -> 1 [] c = "2" -> 2 [] c = "3" -> 3
    [] c = "4" -> 4 [] c = "5" -> 5 [] c = "6" -> 6 [] c = "7" -> 7
    [] c = "8" -> 8 [] c = "9" -> 9

RECURSIVE Decimal(_)
Decimal(s) ==
  IF Len(s) = 0 THEN 0
  ELSE 10 * Decimal(SubSeq(s, 1, Len(s) - 1)) + Digit(s[Len(s)])

\* Number(s) for the strings the requests carry: decimal digits, with a
\* "-" in front or without, and anything else, which is not a number
Number(s) ==
  LET neg == Len(s) > 1 /\ s[1] = "-"
      digits == IF neg THEN Tail(s) ELSE s
  IN IF s = <<>> THEN Num(0)
     ELSE IF \A i \in 1..Len(digits) : digits[i] \in AnsiParams \ {";"}
       THEN Num(IF neg THEN 0 - Decimal(digits) ELSE Decimal(digits))
     ELSE NaN

LogBody ==
  [fields |-> {}, error |-> "", entries |-> <<>>, count |-> 0]

\* the handler of /via/logs; sinceParam is url.searchParams.get("since")
LogsRoute(b, method, sinceParam) ==
  LET r == Request("logs", method, sinceParam, Undefined)
      since == IF IsFalsy(sinceParam) THEN Num(0) ELSE Number(sinceParam.s)
      all == getEntries(b)
      entries == IF ~since.nan /\ since.n > 0
                   THEN SelectSeq(all, LAMBDA e : e.timestamp > since.n)
                 ELSE all
  IN IF method # "GET" THEN EndError(r, 405, "Method not allowed")
     ELSE EndJson(r, [LogBody EXCEPT !.fields = {"entries", "count"},
                                     !.entries = entries,
                                     !.count = Len(entries)])

----------------------------------------------------------------------------
(* Actions *)

Patterns == resolveEditablePatterns(editable, projectRoot)

\* a request on /via/files
GetFiles ==
  /\ res = NoRes
  /\ \E method \in {"GET", "POST"} : res' = FilesRoute(fs, Patterns, method)
  /\ UNCHANGED <<fs, editable, inflight, lastOk>>
  /\ UNCHANGED <<gitVars, logVars>>

\* a GET on /via/file
GetFile ==
  /\ res = NoRes
  /\ \E q \in {Undefined} \cup {Str(p) : p \in RequestPaths \cup {<<>>}} :
       res' = FileGet(fs, Patterns, q)
  /\ UNCHANGED <<fs, editable, inflight, lastOk>>
  /\ UNCHANGED <<gitVars, logVars>>

\* a POST on /via/file arrives; the handler awaits readBody
PostBegin ==
  /\ res = NoRes
  /\ inflight < MaxInflight
  /\ inflight' = inflight + 1
  /\ UNCHANGED <<fs, editable, res, lastOk>>
  /\ UNCHANGED <<gitVars, logVars>>

Body(j, p, c) == [json |-> j, path |-> p, content |-> c]

\* bodies that carry a path and a content, both strings
WriteBodies ==
  { Body("object", Str(w), Str(d)) : w \in WritePaths, d \in Contents }

\* bodies that are no JSON, no object, or lack a string path or content
OddBodies ==
  { Body("invalid", Undefined, Undefined), Body("null", Undefined, Undefined),
    Body("scalar", Undefined, Undefined),
    Body("object", Undefined, Undefined),
    Body("object", Undefined, Str(<<"U+00E9">>)),
    Body("object", Str(<<>>), Str(<<>>)),
    Body("object", Falsy, Str(<<>>)),
    Body("object", Truthy, Str(<<>>)),
    Body("object", Str(P(S_src, S_a)), Undefined),
    Body("object", Str(N_a), Undefined),
    Body("object", Str(P(S_src, S_a)), Truthy),
    Body("object", Str(S_src2), Truthy) }

Bodies == WriteBodies \cup OddBodies

\* the places inside a value's bytes where a chunk of the body can end
Cuts(body) ==
  LET n == Len(JsonWire(body.content.s))
  IN IF n = 0 THEN {0} ELSE 0..(n - 1)

\* the errors the disk can raise while the data of this body is written
IoErrors(body) ==
  IF body \in WriteBodies THEN {"", "EACCES", "ENOSPC"} ELSE {""}

\* the body of a waiting POST is complete and the handler runs to its end
PostBody ==
  /\ res = NoRes
  /\ inflight > 0
  /\ inflight' = inflight - 1
  /\ \E body \in Bodies :
       \E cut \in Cuts(body), io \in IoErrors(body) :
         LET out == FilePost(fs, Patterns, body, cut, io)
             wrote == \E i \in 1..Len(out.res.trace) : out.res.trace[i].op = "writeFileSync"
         IN /\ res' = out.res
            /\ fs' = out.fs
            /\ lastOk' = IF out.res.body.status = "ok"
                           THEN [valid |-> TRUE, path |-> body.path.s,
                                 content |-> body.content.s]
                         ELSE IF wrote THEN NoWrite
                         ELSE lastOk
  /\ UNCHANGED editable
  /\ UNCHANGED <<gitVars, logVars>>

\* the request stream of a waiting POST fails: readBody rejects
PostAbort ==
  /\ res = NoRes
  /\ inflight > 0
  /\ inflight' = inflight - 1
  /\ res' = EndError(Request("file", "POST", Undefined, Undefined), 400, "Invalid JSON body")
  /\ UNCHANGED <<fs, editable, lastOk>>
  /\ UNCHANGED <<gitVars, logVars>>

\* a request on /via/file that is neither GET nor POST
OtherMethod ==
  /\ res = NoRes
  /\ \E method \in {"DELETE", "PUT"} : res' = FileOther(method)
  /\ UNCHANGED <<fs, editable, inflight, lastOk>>
  /\ UNCHANGED <<gitVars, logVars>>

\* nodes other programs create and remove while the server runs
EnvNodes == {N_env, N_src, N_a}

\* another program writes a file
EnvWrite ==
  /\ res = NoRes
  /\ \E n \in EnvNodes, d \in {X} :
       /\ fs[n].kind \in {"absent", "file"}
       /\ fs[Parent(n)].kind = "dir"
       /\ fs' = [fs EXCEPT ![n] = File(d)]
  /\ lastOk' = NoWrite
  /\ UNCHANGED <<editable, res, inflight>>
  /\ UNCHANGED <<gitVars, logVars>>

\* another program removes a file, or a directory with all it holds
EnvRemove ==
  /\ res = NoRes
  /\ \E n \in EnvNodes :
       /\ fs[n].kind # "absent"
       /\ fs' = [m \in NodeSet |->
                   IF StartsWith(m, n \o Slash) \/ m = n THEN Absent ELSE fs[m]]
  /\ lastOk' = NoWrite
  /\ UNCHANGED <<editable, res, inflight>>
  /\ UNCHANGED <<gitVars, logVars>>

\* another program creates the src directory
EnvMkdir ==
  /\ res = NoRes
  /\ fs[N_src].kind = "absent"
  /\ fs' = [fs EXCEPT ![N_src] = Dir]
  /\ lastOk' = NoWrite
  /\ UNCHANGED <<editable, res, inflight>>
  /\ UNCHANGED <<gitVars, logVars>>

\* the handler has returned: the server is idle until the next event
Done ==
  /\ res # NoRes
  /\ res' = NoRes
  /\ UNCHANGED <<fs, editable, inflight, lastOk>>
  /\ UNCHANGED <<gitVars, logVars>>

Init ==
  /\ fs \in FsRoutes
  /\ editable \in ConfigsRoutes
  /\ res = NoRes
  /\ inflight = 0
  /\ lastOk = NoWrite
  /\ repoRoot = Null
  /\ gitClient = Null
  /\ pending = [i \in Slots |-> Idle]
  /\ repo = NoRepository
  /\ logBuffer = NewLogBuffer
  /\ logged = 0

Next ==
  \/ GetFiles
  \/ GetFile
  \/ PostBegin
  \/ PostBody
  \/ PostAbort
  \/ OtherMethod
  \/ EnvWrite
  \/ EnvRemove
  \/ EnvMkdir
  \/ Done

Spec == Init /\ [][Next]_vars

\* the listing and the membership test on every project tree
InitList ==
  /\ fs \in FsList
  /\ editable \in Configs
  /\ res = NoRes
  /\ inflight = 0
  /\ lastOk = NoWrite
  /\ repoRoot = Null
  /\ gitClient = Null
  /\ pending = [i \in Slots |-> Idle]
  /\ repo = NoRepository
  /\ logBuffer = NewLogBuffer
  /\ logged = 0

NextList ==
  \/ GetFiles
  \/ GetFile
  \/ Done

SpecList == InitList /\ [][NextList]_vars

----------------------------------------------------------------------------
(* The change-aggregation routes at work *)

\* the files a repository state is drawn from
UntrackedData == { <<>>, X, Y, <<"78", "0A", "78">> }

EntriesB ==
  { Clean, Entry("AM", FALSE, File(Y)), Entry("R ", FALSE, File(Y)),
    Entry(" M", FALSE, File(Y)) }

EntriesA ==
  { Clean, Entry(" M", FALSE, File(Y)), Entry("M ", FALSE, File(Y)),
    Entry("MM", FALSE, File(Y)), Entry("D ", FALSE, Absent),
    Entry(" M", TRUE, File(Y)), Entry("A ", FALSE, File(Y)) }

EntriesU ==
  { Entry("??", FALSE, File(d)) : d \in UntrackedData }
    \cup { Entry("??", FALSE, Other), Clean }

\* the project lies in no repository, or in one whose top level is the
\* project root or the directory above it
Repositories ==
  { NoRepository }
    \cup { Repository(TRUE, top, b, a, u) :
             top \in {projectRoot, Slash}, b \in EntriesB, a \in EntriesA,
             u \in EntriesU }

\* the path parameter of the requests on /via/git/diff
GitRequestPaths ==
  { G_B, G_a, G_u, G_n, S_src, P(Dot, G_a), N_o, join(projectRoot, G_a) }
    \cup { Ups(k) \o S_o : k \in 1..MaxUp }

GitQueries == { Null, Str(<<>>) } \cup { Str(p) : p \in GitRequestPaths }

filesVars == <<fs, editable, inflight, lastOk>>

Settle(i, out) ==
  /\ pending' = [pending EXCEPT ![i] = out.q]
  /\ res' = out.res

\* a request arrives on /via/git/status or /via/git/diff
GitArriveWith(i, queries) ==
  /\ res = NoRes
  /\ pending[i] = Idle
  /\ \E route \in {"git/status", "git/diff"}, method \in {"GET", "POST"},
        filePath \in queries :
       /\ (route = "git/status" \/ method = "POST") => filePath = Null
       /\ Settle(i, Arrive(route, method, filePath, gitClient, repoRoot))
  /\ UNCHANGED <<repoRoot, gitClient, repo>>
  /\ UNCHANGED <<filesVars, logVars>>

GitArrive(i) == GitArriveWith(i, GitQueries)

\* rev-parse ends: it prints the top level, or fails
GitDiscovered(i) ==
  /\ res = NoRes
  /\ pending[i].pc = "revparse"
  /\ \E found \in (IF repo.isRepo THEN {Str(repo.top), Null} ELSE {Null}) :
       LET d == Discovered(pending[i], gitClient, found)
       IN /\ repoRoot' = d.cache.root
          /\ gitClient' = d.cache.git
          /\ Settle(i, d.out)
  /\ UNCHANGED repo
  /\ UNCHANGED <<filesVars, logVars>>

\* git status ends
GitStatusSettled(i) ==
  /\ res = NoRes
  /\ pending[i].pc = "status"
  /\ \E ok \in BOOLEAN : Settle(i, StatusSettled(pending[i], repo, ok))
  /\ UNCHANGED <<repoRoot, gitClient, repo>>
  /\ UNCHANGED <<filesVars, logVars>>

\* both summaries have ended, or one of them has failed
GitSummarySettled(i) ==
  /\ res = NoRes
  /\ pending[i].pc = "summary"
  /\ \E stagedOk \in BOOLEAN, unstagedOk \in BOOLEAN :
       Settle(i, SummarySettled(pending[i], repo, stagedOk, unstagedOk))
  /\ UNCHANGED <<repoRoot, gitClient, repo>>
  /\ UNCHANGED <<filesVars, logVars>>

\* the staged diff of a path ends
GitDiffStagedSettled(i) ==
  /\ res = NoRes
  /\ pending[i].pc = "diffStaged"
  /\ \E ok \in BOOLEAN : Settle(i, DiffStagedSettled(pending[i], repo, ok))
  /\ UNCHANGED <<repoRoot, gitClient, repo>>
  /\ UNCHANGED <<filesVars, logVars>>

\* the unstaged diff of a path ends
GitDiffUnstagedSettled(i) ==
  /\ res = NoRes
  /\ pending[i].pc = "diffUnstaged"
  /\ \E ok \in BOOLEAN : Settle(i, DiffUnstagedSettled(pending[i], repo, ok))
  /\ UNCHANGED <<repoRoot, gitClient, repo>>
  /\ UNCHANGED <<filesVars, logVars>>

\* the staged diff of the whole tree ends
GitAllStagedSettled(i) ==
  /\ res = NoRes
  /\ pending[i].pc = "allStaged"
  /\ \E ok \in BOOLEAN : Settle(i, AllStagedSettled(pending[i], repo, ok))
  /\ UNCHANGED <<repoRoot, gitClient, repo>>
  /\ UNCHANGED <<filesVars, logVars>>

\* the unstaged diff of the whole tree ends
GitAllUnstagedSettled(i) ==
  /\ res = NoRes
  /\ pending[i].pc = "allUnstaged"
  /\ \E ok \in BOOLEAN : Settle(i, AllUnstagedSettled(pending[i], repo, ok))
  /\ UNCHANGED <<repoRoot, gitClient, repo>>
  /\ UNCHANGED <<filesVars, logVars>>

\* registerGitRoutes has run, no request has come yet
InitGit ==
  /\ fs = MkFs(Absent, Absent, Absent, Absent, Absent, Absent, Absent, Absent, Absent)
  /\ editable = <<>>
  /\ res = NoRes
  /\ inflight = 0
  /\ lastOk = NoWrite
  /\ repoRoot = Null
  /\ gitClient = Null
  /\ pending = [i \in Slots |-> Idle]
  /\ repo \in Repositories
  /\ logBuffer = NewLogBuffer
  /\ logged = 0

NextGit ==
  \/ \E i \in Sequential : GitArrive(i)
  \/ \E i \in Sequential : GitDiscovered(i)
  \/ \E i \in Sequential : GitStatusSettled(i)
  \/ \E i \in Sequential : GitSummarySettled(i)
  \/ \E i \in Sequential : GitDiffStagedSettled(i)
  \/ \E i \in Sequential : GitDiffUnstagedSettled(i)
  \/ \E i \in Sequential : GitAllStagedSettled(i)
  \/ \E i \in Sequential : GitAllUnstagedSettled(i)
  \/ Done

SpecGit == InitGit /\ [][NextGit]_vars

----------------------------------------------------------------------------
(* The whole server: the three groups of routes and the logger *)

Levels == <<"info", "warn", "error">>

\* the messages Vite logs: plain, coloured, and with an escape that is cut
Texts ==
  << <<"o", "k">>,
     <<ESC, "[", "3", "1", "m", "o", "k", ESC, "[", "0", "m">>,
     <<ESC, "[", "1", ";", "o", "k">> >>

RECURSIVE Digits(_)
Digits(n) ==
  IF n < 10 THEN <<ToString(n)>> ELSE Digits(n \div 10) \o <<ToString(n % 10)>>

\* the n-th message logged: its level, its text, which ends in its number,
\* and Date.now() when it is logged, two messages to a millisecond
LevelOf(n) == Levels[(n % 3) + 1]
TextOf(n) == Texts[((n \div 3) % 3) + 1] \o <<" ">> \o Digits(n)
ClockAt(n) == 1 + (n \div 2)

\* the since parameter of the requests on /via/logs
Sinces ==
  { Null, Str(<<>>), Str(<<"0">>), Str(<<"1">>), Str(<<"5", "0">>),
    Str(<<"-", "1">>), Str(<<"a">>) }

\* the logger Vite calls: logger.info, logger.warn or logger.error
LogPush ==
  /\ res = NoRes
  /\ logged < MaxLogged
  /\ logged' = logged + 1
  /\ logBuffer' = push(logBuffer, LevelOf(logged + 1), TextOf(logged + 1),
                       ClockAt(logged + 1))
  /\ UNCHANGED <<res, filesVars, gitVars>>

\* the Host header of a request: a name, or nothing after the colon
Hosts == { <<"h">>, <<>> }

\* a request on /via/file that is neither GET nor POST, under any Host header
OtherMethodFrom ==
  /\ res = NoRes
  /\ \E host \in Hosts, method \in {"DELETE", "PUT"} :
       res' = FileOtherFrom(host, method)
  /\ UNCHANGED <<filesVars, gitVars, logVars>>

\* a request on /via/logs
LogGet ==
  /\ res = NoRes
  /\ \E method \in {"GET", "POST"}, sinceParam \in Sinces :
       /\ method = "POST" => sinceParam = Null
       /\ res' = LogsRoute(logBuffer, method, sinceParam)
  /\ UNCHANGED <<filesVars, gitVars, logVars>>

ServerQueries == { Null, Str(G_a) }

\* the plugin has set the server up in a project that is a repository
InitServer ==
  /\ fs = MkFs(File(X), File(X), Dir, File(X), Absent, Absent, Absent, Absent, Absent)
  /\ editable = <<S_src, S_env>>
  /\ res = NoRes
  /\ inflight = 0
  /\ lastOk = NoWrite
  /\ repoRoot = Null
  /\ gitClient = Null
  /\ pending = [i \in Slots |-> Idle]
  /\ repo = Repository(TRUE, projectRoot, Entry("AM", FALSE, File(Y)),
                       Entry(" M", FALSE, File(Y)), Entry("??", FALSE, File(Y)))
  /\ logBuffer \in {NewLogBuffer, init(NewLogBuffer, projectRoot)}
  /\ logged = 0

NextServer ==
  \/ GetFiles
  \/ GetFile
  \/ OtherMethodFrom
  \/ \E i \in Sequential : GitArriveWith(i, ServerQueries)
  \/ \E i \in Sequential : GitDiscovered(i)
  \/ \E i \in Sequential : GitStatusSettled(i)
  \/ \E i \in Sequential : GitSummarySettled(i)
  \/ \E i \in Sequential : GitDiffStagedSettled(i)
  \/ \E i \in Sequential : GitDiffUnstagedSettled(i)
  \/ \E i \in Sequential : GitAllStagedSettled(i)
  \/ \E i \in Sequential : GitAllUnstagedSettled(i)
  \/ LogPush
  \/ LogGet
  \/ Done

SpecServer == InitServer /\ [][NextServer]_vars

----------------------------------------------------------------------------
(* Requests on the git routes that overlap *)

RaceQueries == { Null, Str(G_a) }

InitRace ==
  /\ fs = MkFs(Absent, Absent, Absent, Absent, Absent, Absent, Absent, Absent, Absent)
  /\ editable = <<>>
  /\ res = NoRes
  /\ inflight = 0
  /\ lastOk = NoWrite
  /\ repoRoot = Null
  /\ gitClient = Null
  /\ pending = [i \in Slots |-> Idle]
  /\ repo \in { NoRepository,
                Repository(TRUE, projectRoot, Clean, Entry(" M", FALSE, File(Y)),
                           Entry("??", FALSE, File(Y))) }
  /\ logBuffer = NewLogBuffer
  /\ logged = 0

NextRace ==
  \/ \E i \in Slots : GitArriveWith(i, RaceQueries)
  \/ \E i \in Slots : GitDiscovered(i)
  \/ \E i \in Slots : GitStatusSettled(i)
  \/ \E i \in Slots : GitSummarySettled(i)
  \/ \E i \in Slots : GitDiffStagedSettled(i)
  \/ \E i \in Slots : GitDiffUnstagedSettled(i)
  \/ \E i \in Slots : GitAllStagedSettled(i)
  \/ \E i \in Slots : GitAllUnstagedSettled(i)
  \/ Done

SpecRace == InitRace /\ [][NextRace]_vars

TypeOk ==
  /\ TreeOk(fs)
  /\ inflight \in 0..MaxInflight
  /\ res.ended \in 0..1

----------------------------------------------------------------------------
(* Notions the properties are stated in *)

\* the location a requested path names: its segments below the filesystem
\* root, "." and ".." taken out
Location(p) ==
  normalizeString(Split(IF p[1] = "/" THEN p ELSE projectRoot \o Slash \o p), <<>>)

IsPrefix(a, b) == Len(a) <= Len(b) /\ \A i \in 1..Len(a) : a[i] = b[i]

\* loc lies in the directory d, at any depth
Below(d, loc) == IsPrefix(d, loc) /\ Len(d) < Len(loc)

\* the locations of the configured patterns
PatternLocs == [i \in 1..Len(editable) |-> Location(editable[i])]

NodeOf(loc) == AbsString(loc)

\* loc is the pattern at pl or lies in it
Within(pl, loc) == IsPrefix(pl, loc)

\* loc lies outside every configured pattern
Outside(loc) == \A i \in 1..Len(editable) : ~Within(PatternLocs[i], loc)

HasEvent(r, op) == \E i \in 1..Len(r.trace) : r.trace[i].op = op

\* the handler of a read or a write ran with a path and, for a write, a content
AsksFor(r) ==
  /\ r.route = "file"
  /\ r.path.t = "string"
  /\ r.path.s # <<>>
  /\ \/ r.method = "GET"
     \/ r.method = "POST" /\ r.sent.t # "undefined"

Allowed(p) == isPathAllowed(fs, p, Patterns, projectRoot)

----------------------------------------------------------------------------
(* Properties *)

C3_GateBeforeAccess ==
  [][ (res = NoRes /\ res'.route = "file") =>
        /\ \A i \in 1..Len(res'.trace) :
             res'.trace[i].op \in {"readFileSync", "writeFileSync"} =>
               \E j \in 1..(i - 1) :
                 /\ res'.trace[j].op = "isPathAllowed"
                 /\ res'.trace[j].ok
                 /\ res'.trace[j].arg = res'.trace[i].arg
        /\ res'.statusCode \in {400, 403} =>
             /\ ~HasEvent(res', "readFileSync")
             /\ ~HasEvent(res', "writeFileSync")
             /\ fs' = fs ]_vars

\* a write to an existing file outside the editable list is refused
C3_Witness ==
  /\ res.method = "POST"
  /\ res.sent.t = "string"
  /\ res.path = Str(S_env)
  /\ editable = <<P(DotDot, S_o), S_src>>
  /\ fs[N_env].kind = "file"
  /\ res.statusCode = 403

\* C4: for a pattern that is an existing directory, every relative path that
\* resolves below it is allowed, and every relative path that resolves
\* outside it and outside the other patterns is denied.
C4_DirectoryPattern ==
  res = NoRes => \A i \in 1..Len(editable) :
    statSync(fs, NodeOf(PatternLocs[i])) = "dir" =>
      \A p \in RelativePaths :
        /\ Below(PatternLocs[i], Location(p)) => Allowed(p)
        /\ Outside(Location(p)) => ~Allowed(p)

\* C5: a pattern that is not on disk still allows the relative paths that
\* resolve to it or below it, and a relative path outside every pattern is
\* denied.
C5_AbsentPattern ==
  res = NoRes => \A i \in 1..Len(editable) :
    statSync(fs, NodeOf(PatternLocs[i])) = "absent" =>
      \A p \in RelativePaths :
        /\ Within(PatternLocs[i], Location(p)) => Allowed(p)
        /\ Outside(Location(p)) => ~Allowed(p)

\* the src pattern is not on disk and a read below it is answered not found
\* instead of forbidden
C5_Witness ==
  /\ res.method = "GET"
  /\ res.path = Str(P(S_src, S_a))
  /\ editable = <<S_src, S_env>>
  /\ fs[N_src].kind = "absent"
  /\ res.statusCode = 404

\* C6: after a write of content c was answered ok, a read of the same path
\* with no write in between returns exactly c.
C6_RoundTrip ==
  (res.route = "file" /\ res.method = "GET" /\ lastOk.valid
     /\ res.path = Str(lastOk.path)) =>
    /\ res.statusCode = 200
    /\ res.body.content = lastOk.content

\* the segments of a listed path
Segments(rel) == Split(rel)

\* C7: no listed path has a segment node_modules or .git.
C7_NoExcludedSegment ==
  (res.route = "files" /\ res.method = "GET") =>
    \A i \in 1..Len(res.body.files) :
      \A k \in 1..Len(Segments(res.body.files[i])) :
        Segments(res.body.files[i])[k] \notin {S_nm, S_git}

\* a sorts strictly before b by UTF-16 code units
Precedes(a, b) ==
  \E k \in 1..(Len(b)) :
    /\ \A j \in 1..(k - 1) : j <= Len(a) /\ a[j] = b[j]
    /\ \/ Len(a) = k - 1
       \/ Len(a) >= k /\ CharCode(a[k]) < CharCode(b[k])

\* C8: the listing is in strictly ascending order, so no path is in it twice.
C8_SortedNoDuplicates ==
  (res.route = "files" /\ res.method = "GET") =>
    \A i \in 1..Len(res.body.files) : \A j \in 1..Len(res.body.files) :
      i < j => Precedes(res.body.files[i], res.body.files[j])

\* a directory and a file inside it are both patterns, and the directory
\* holds more than one file
C8_Witness ==
  /\ res.route = "files"
  /\ res.method = "GET"
  /\ editable = <<S_src, P(S_src, S_a)>>
  /\ fs[N_a].kind = "file"
  /\ Len(res.body.files) >= 2

C10_PostStatus ==
  (res.route = "file" /\ res.method = "POST") =>
    /\ (res.path.t = "undefined" \/ res.sent.t = "undefined") =>
         res.statusCode = 400 /\ res.ended = 1
    /\ (HasEvent(res, "writeFileSync") /\ res.body.status # "ok") =>
         res.statusCode = 500 /\ res.body.error \in {"EACCES", "ENOSPC", "EISDIR", "ENOENT", "ENXIO", "ERR_INVALID_ARG_TYPE"}
    /\ res.body.status = "ok" =>
         /\ res.statusCode = 200
         /\ statSync(fs, NodeOf(Location(res.path.s))) = "file"

----------------------------------------------------------------------------
(* Notions the properties of the git routes are stated in *)

\* r answers, or will answer, a GET on /via/git/diff
DiffGet(r) == r.route = "git/diff" /\ r.method = "GET"

\* r answers, or will answer, a GET on /via/git/status
StatusGet(r) == r.route = "git/status" /\ r.method = "GET"

\* r carries a path parameter that is not empty and not absolute
RelativeQuery(r) ==
  /\ r.path.t = "string"
  /\ r.path.s # <<>>
  /\ ~StartsWith(r.path.s, Slash)

\* r carries a path parameter that begins with "/"
AbsoluteQuery(r) == r.path.t = "string" /\ StartsWith(r.path.s, Slash)

\* the place p names, taken from the top level of the repository, is not
\* the top level nor below it
LeavesRepo(p) ==
  ~IsPrefix(AbsSegs(repo.top), AbsSegs(repo.top \o Slash \o p))

\* every response so far and every request under way
Handled == {res} \cup {pending[i].r : i \in Slots}

----------------------------------------------------------------------------
(* C11: a GET on /via/git/diff whose relative path resolves outside the    *)
(* repository is answered with an empty diff, and its handler calls        *)
(* neither git.diff nor readFileSync.                                      *)
C11_OutsideNoDiff ==
  \A r \in Handled :
    (DiffGet(r) /\ RelativeQuery(r) /\ repo.isRepo /\ LeavesRepo(r.path.s)) =>
      /\ ~HasEvent(r, "git.diff")
      /\ ~HasEvent(r, "readFileSync")
      /\ r.ended = 1 => ("diff" \in r.body.fields /\ r.body.diff = <<>>)

\* the repository was found and a path above it was asked for
C11_Witness ==
  /\ DiffGet(res) /\ RelativeQuery(res) /\ LeavesRepo(res.path.s)
  /\ repo.isRepo /\ repo.top = projectRoot
  /\ res.ended = 1
  /\ res.body.fields = {"diff", "path"}
  /\ res.body.diff = <<>>

----------------------------------------------------------------------------
(* C12: a GET on /via/git/diff whose path begins with "/" is answered with *)
(* a 4xx status and an error, and from its arrival to its answer the       *)
(* handler calls neither git nor the filesystem, whatever the cache of     *)
(* ensureGit holds and whether or not a repository exists.                 *)
C12_AbsoluteNoCall ==
  \A r \in Handled :
    (DiffGet(r) /\ AbsoluteQuery(r)) =>
      /\ r.trace = <<>>
      /\ r.ended = 1 =>
           (r.statusCode \in 400..499 /\ "error" \in r.body.fields)

----------------------------------------------------------------------------
\* a read or a write names a path that is absolute or leads out of every
\* editable pattern
FileEscapes(r) ==
  /\ r.route = "file"
  /\ r.method \in {"GET", "POST"}
  /\ r.path.t = "string"
  /\ r.path.s # <<>>
  /\ \/ StartsWith(r.path.s, Slash)
     \/ Outside(Location(r.path.s))

\* a diff names a path that is absolute or leaves the repository
DiffEscapes(r) ==
  /\ DiffGet(r)
  /\ \/ AbsoluteQuery(r)
     \/ RelativeQuery(r) /\ repo.isRepo /\ LeavesRepo(r.path.s)

(* C13: every read, write or diff whose path is absolute or leads out of   *)
(* the editable patterns (out of the repository, for a diff) is answered   *)
(* with a status between 400 and 499 and a body that holds an error field. *)
C13_EscapeIsClientError ==
  \A r \in Handled :
    ((FileEscapes(r) \/ DiffEscapes(r)) /\ r.ended = 1) =>
      /\ r.statusCode \in 400..499
      /\ "error" \in r.body.fields

----------------------------------------------------------------------------
(* C14: in a project that lies in no repository, every GET on the status   *)
(* route is answered with git: false and an empty files list, every GET on *)
(* the diff route with an empty diff and git: false, both with status 200, *)
(* no error field and no exception.                                        *)
C14_NoRepository ==
  \A r \in Handled :
    (~repo.isRepo /\ r.ended = 1 /\ (StatusGet(r) \/ DiffGet(r))) =>
      /\ r.statusCode = 200
      /\ ~r.thrown
      /\ "error" \notin r.body.fields
      /\ "git" \in r.body.fields /\ r.body.git = FALSE
      /\ StatusGet(r) => ("files" \in r.body.fields /\ r.body.files = <<>>)
      /\ DiffGet(r) => ("diff" \in r.body.fields /\ r.body.diff = <<>>)

\* a diff of a named file was asked for outside any repository
C14_Witness ==
  /\ ~repo.isRepo
  /\ DiffGet(res) /\ res.path = Str(G_a)
  /\ res.ended = 1
  /\ res.body.fields = {"diff", "git"}
  /\ HasEvent(res, "git.revparse")

----------------------------------------------------------------------------
(* C15: every answer to a GET on the status route holds the four fields    *)
(* files, git, insertions and deletions, also when no repository was found *)
(* and when a git command failed.                                          *)
C15_FourFields ==
  \A r \in Handled :
    (StatusGet(r) /\ r.ended = 1) =>
      r.body.fields = {"files", "git", "insertions", "deletions"}

----------------------------------------------------------------------------
\* the status the first list of git's result that holds p stands for
FirstCategory(result, p) ==
  IF p \in Range(result.modified) THEN "M"
  ELSE IF p \in Range(result.created) THEN "A"
  ELSE IF p \in Range(result.deleted) THEN "D"
  ELSE IF \E i \in 1..Len(result.renamed) : result.renamed[i].to = p THEN "R"
  ELSE "?"

\* every path git's result names
Reported(result) ==
  Range(result.modified) \cup Range(result.created) \cup Range(result.deleted)
    \cup {result.renamed[i].to : i \in 1..Len(result.renamed)}
    \cup Range(result.not_added)

----------------------------------------------------------------------------
\* the sum of the insertions, or of the deletions, of a list of files
RECURSIVE SumFiles(_, _)
SumFiles(files, ins) ==
  IF Len(files) = 0 THEN 0
  ELSE (IF ins THEN Head(files).insertions ELSE Head(files).deletions)
         + SumFiles(Tail(files), ins)

(* C17: in every status answer with git: true the field insertions is the  *)
(* sum of the insertions of the files in the answer, and the field         *)
(* deletions the sum of their deletions.                                   *)
C17_TotalsAreSums ==
  \A r \in Handled :
    (StatusGet(r) /\ r.ended = 1 /\ r.body.git) =>
      /\ r.body.insertions = SumFiles(r.body.files, TRUE)
      /\ r.body.deletions = SumFiles(r.body.files, FALSE)

----------------------------------------------------------------------------
\* the number of lines a file holds: its newline bytes, and one more for
\* bytes after the last of them
LineCount(data) ==
  Cardinality({i \in 1..Len(data) : data[i] = "0A"})
    + (IF Len(data) > 0 /\ data[Len(data)] # "0A" THEN 1 ELSE 0)

\* the untracked paths whose file can be read
ReadableUntracked ==
  { p \in Range(StatusResult(repo).not_added) : repo.entries[p].file.kind = "file" }

(* C18: a status answer with git: true gives every untracked file that can *)
(* be read as many insertions as the file holds lines, and 0 deletions,    *)
(* whatever the file holds: nothing, or text that ends in a newline.       *)
C18_UntrackedLineCount ==
  \A r \in Handled :
    (StatusGet(r) /\ r.ended = 1 /\ r.body.git) =>
      \A p \in ReadableUntracked :
        \E i \in 1..Len(r.body.files) :
          /\ r.body.files[i].path = p
          /\ r.body.files[i].insertions = LineCount(repo.entries[p].file.data)
          /\ r.body.files[i].deletions = 0

----------------------------------------------------------------------------
\* one of the two diffSummary calls of r was rejected
SummaryFailed(r) ==
  \E i \in 1..Len(r.trace) :
    r.trace[i].op = "diffSummary settled" /\ ~r.trace[i].ok

(* C19: when the staged or the unstaged diffSummary call fails, the status *)
(* request is still answered with git: true and every path git status      *)
(* reported, and every count of every file and both totals are 0: no count *)
(* of the summary that did resolve shows up.                               *)
C19_SummaryFailure ==
  \A r \in Handled :
    (StatusGet(r) /\ r.ended = 1 /\ SummaryFailed(r)) =>
      /\ r.statusCode = 200
      /\ r.body.fields = {"files", "git", "insertions", "deletions"}
      /\ r.body.git
      /\ {r.body.files[i].path : i \in 1..Len(r.body.files)}
           = Reported(StatusResult(repo))
      /\ \A i \in 1..Len(r.body.files) :
           r.body.files[i].insertions = 0 /\ r.body.files[i].deletions = 0
      /\ r.body.insertions = 0
      /\ r.body.deletions = 0

\* the staged summary failed, the unstaged one resolved with counts for a
\* modified file, and an untracked file could have been read
C19_Witness ==
  /\ StatusGet(res) /\ res.ended = 1 /\ res.body.git
  /\ \E i \in 1..Len(res.trace) :
       /\ res.trace[i] = Ev("diffSummary settled", <<"--cached">>, FALSE)
       /\ res.trace[i + 1] = Ev("diffSummary settled", <<>>, TRUE)
  /\ repo.entries[G_a].xy = "MM"
  /\ G_u \in ReadableUntracked
  /\ Len(res.body.files) >= 2
  /\ res.body.insertions = 0

----------------------------------------------------------------------------
\* a git.diff call of r was rejected
DiffFailed(r) ==
  \E i \in 1..Len(r.trace) : r.trace[i].op = "diff settled" /\ ~r.trace[i].ok

\* what the claim says getFileDiff returns for the path p
ExpectedDiff(p) ==
  LET staged == diffPath(repo, p, TRUE)
      unstaged == diffPath(repo, p, FALSE)
      abs == join(repo.top, p)
  IN IF staged # <<>> /\ unstaged # <<>> THEN staged \o NL \o unstaged
     ELSE IF staged # <<>> \/ unstaged # <<>> THEN staged \o unstaged
     ELSE IF CanReadWork(repo, abs)
       THEN Synthesized(p, readFileSync(WorkTree(repo), abs))
     ELSE <<>>

(* C20: for a path inside the repository, the diff of the path is the      *)
(* staged diff, a newline and the unstaged diff when both hold text, the   *)
(* one that holds text when only one does, and otherwise the diff made up  *)
(* of the file's content, every line added, when the file can be read and  *)
(* the empty string when it cannot, for tracked and untracked files alike. *)
C20_DiffOfPath ==
  \A r \in Handled :
    (/\ DiffGet(r) /\ RelativeQuery(r) /\ r.ended = 1
     /\ repo.isRepo /\ ~LeavesRepo(r.path.s)
     /\ r.body.fields = {"diff", "path"}
     /\ ~DiffFailed(r)) =>
      r.body.diff = ExpectedDiff(r.path.s)

----------------------------------------------------------------------------
\* r is a diff answer whose diff getFileDiff made up of a file it read
SynthesizedFor(r) ==
  /\ DiffGet(r) /\ RelativeQuery(r) /\ r.ended = 1
  /\ r.body.fields = {"diff", "path"}
  /\ \E i \in 1..Len(r.trace) : r.trace[i].op = "readFileSync" /\ r.trace[i].ok

\* the lines of a text: the pieces its newlines end, and the rest after the
\* last of them when that is not empty
SourceLines(text) ==
  LET pieces == SplitLines(text)
  IN IF pieces[Len(pieces)] = <<>> THEN SubSeq(pieces, 1, Len(pieces) - 1)
     ELSE pieces

\* the lines of a diff below its three header lines
BodyLines(diff) == SubSeq(SplitLines(diff), 4, Len(SplitLines(diff)))

(* C21: the diff made up for a file without tracked changes begins with    *)
(* the header "--- /dev/null", holds every line of the file with "+" in    *)
(* front, and its hunk header announces as many added lines as the body    *)
(* has lines that begin with "+".                                          *)
C21_SynthesizedDiff ==
  \A r \in Handled :
    SynthesizedFor(r) =>
      LET diff == r.body.diff
          head == SplitLines(diff)
          body == BodyLines(diff)
          text == readFileSync(WorkTree(repo), join(repo.top, r.path.s))
          plus == {i \in 1..Len(body) : StartsWith(body[i], <<"+">>)}
      IN /\ Len(head) >= 3
         /\ head[1] = <<"--- /dev/null">>
         /\ \A k \in 1..Len(SourceLines(text)) :
              \E i \in 1..Len(body) : body[i] = <<"+">> \o SourceLines(text)[k]
         /\ head[3] = <<"@@ -0,0 +1,", ToString(Cardinality(plus)), " @@">>

\* a diff was made up for a file of two lines
C21_Witness ==
  \E r \in Handled :
    /\ SynthesizedFor(r)
    /\ Len(SourceLines(readFileSync(WorkTree(repo), join(repo.top, r.path.s)))) = 2
    /\ Len(BodyLines(r.body.diff)) = 2

----------------------------------------------------------------------------
\* r answers a GET on /via/git/diff that names no path, from a repository,
\* after both of its git.diff calls resolved
WholeTreeDiff(r) ==
  /\ DiffGet(r) /\ IsFalsy(r.path) /\ r.ended = 1
  /\ r.body.fields = {"diff"}
  /\ ~DiffFailed(r)

(* C22: a diff request without a path returns the staged diff of the whole *)
(* tree followed by its unstaged diff, a newline between them when both    *)
(* hold text, and never a diff made up for an untracked file: no file is   *)
(* read and the header "--- /dev/null" is not in the answer.               *)
C22_DiffOfTree ==
  \A r \in Handled :
    WholeTreeDiff(r) =>
      LET staged == diffAll(repo, TRUE)
          unstaged == diffAll(repo, FALSE)
      IN /\ r.body.diff = staged
              \o (IF staged # <<>> /\ unstaged # <<>> THEN NL ELSE <<>>)
              \o unstaged
         /\ ~HasEvent(r, "readFileSync")
         /\ \A i \in 1..Len(r.body.diff) : r.body.diff[i] # "--- /dev/null"

\* the whole tree was asked for while it held staged and unstaged changes and
\* an untracked file that can be read
C22_Witness ==
  \E r \in Handled :
    /\ WholeTreeDiff(r)
    /\ diffAll(repo, TRUE) # <<>> /\ diffAll(repo, FALSE) # <<>>
    /\ diffAll(repo, TRUE) # diffAll(repo, FALSE)
    /\ ReadableUntracked # {}

----------------------------------------------------------------------------
\* r answers a request whose method its route does not support
Unsupported(r) ==
  \/ r.route \in {"files", "git/status", "git/diff", "logs"} /\ r.method # "GET"
  \/ r.route = "file" /\ r.method \notin {"GET", "POST"}

(* C23: a request with a method its route does not support, anything but   *)
(* GET on /via/files, /via/git/status, /via/git/diff and /via/logs and     *)
(* anything but GET or POST on /via/file, is answered 405 by the handler,  *)
(* which touches no file, calls git not once and writes nothing.           *)
C23_MethodNotAllowed ==
  \A r \in Handled :
    Unsupported(r) =>
      /\ r = res
      /\ r.statusCode = 405
      /\ r.ended = 1
      /\ r.body.fields = {"error"}
      /\ r.trace = <<>>

----------------------------------------------------------------------------
\* the request in slot i has its handle from ensureGit and works with it
HasHandle(i) == pending[i].pc \notin {"idle", "arrived", "revparse"}

(* C24: however status and diff requests that wait inside ensureGit are    *)
(* interleaved, a request that got a handle got the one it would get when  *)
(* run alone, the top level of the repository and a client made for it,    *)
(* and the cache never holds a client without a root: repoRoot and git are *)
(* both unset or both set.                                                 *)
C24_EnsureGitRace ==
  /\ \A i \in Slots :
       HasHandle(i) =>
         /\ pending[i].ctx.root = Str(repo.top)
         /\ pending[i].ctx.git = Client(repo.top)
  /\ IsFalsy(gitClient) <=> IsFalsy(repoRoot)

(* C25: the cache changes only when the discovery of some request ends, so *)
(* never before the first request; and once a handle is cached, the cached *)
(* root stays what it is and a request that arrives does not run discovery *)
(* but goes on with a handle of that root.                                 *)
C25_CacheForLife ==
  [][/\ (repoRoot' # repoRoot \/ gitClient' # gitClient) =>
          \E i \in Slots : pending[i].pc = "revparse"
     /\ Cached(gitClient, repoRoot) =>
          /\ repoRoot' = repoRoot
          /\ \A i \in Slots :
               (pending[i] = Idle /\ pending'[i] # Idle) =>
                 /\ pending'[i].pc # "revparse"
                 /\ pending'[i].ctx.root = repoRoot]_vars

----------------------------------------------------------------------------
(* C26: every request on the file routes and on the git routes ends its    *)
(* response exactly once whatever path the handler takes: a handler that   *)
(* has run to its end has ended the response, and no response is ended     *)
(* twice.                                                                  *)
C26_EndsOnce ==
  /\ \A r \in Handled : r.ended <= 1
  /\ (res.route \in {"files", "file", "git/status", "git/diff"}) => res.ended = 1

----------------------------------------------------------------------------
\* the lines the staged and the unstaged summary count for the change of the
\* path p; a binary change counts for nothing
CountsOf(p, ins) ==
  LET e == repo.entries[p]
      staged == IF HasStaged(repo, p) /\ ~e.binary
                  THEN (IF ins THEN StagedCounts(e.xy).ins ELSE StagedCounts(e.xy).del)
                ELSE 0
      unstaged == IF HasUnstaged(repo, p) /\ ~e.binary
                    THEN (IF ins THEN UnstagedCounts(e.xy).ins
                          ELSE UnstagedCounts(e.xy).del)
                  ELSE 0
  IN staged + unstaged

(* C27: in a status answer made after both summaries resolved, every       *)
(* tracked path has as insertions and deletions the sum of the counts the  *)
(* staged summary and the unstaged summary give for the change of that     *)
(* path, where a change marked binary adds nothing.                        *)
C27_TrackedCounts ==
  \A r \in Handled :
    (StatusGet(r) /\ r.ended = 1 /\ r.body.git /\ ~SummaryFailed(r)) =>
      \A i \in 1..Len(r.body.files) :
        r.body.files[i].status # "?" =>
          /\ r.body.files[i].insertions = CountsOf(r.body.files[i].path, TRUE)
          /\ r.body.files[i].deletions = CountsOf(r.body.files[i].path, FALSE)

----------------------------------------------------------------------------
(* C28: every path of the editable-file listing is accepted by             *)
(* isPathAllowed under the same patterns, project root and files on disk,  *)
(* so a read or a write of a listed file is not answered 403.              *)
C28_ListedIsAllowed ==
  (res.route = "files" /\ res.method = "GET") =>
    \A i \in 1..Len(res.body.files) : Allowed(res.body.files[i])

----------------------------------------------------------------------------
\* p has a segment node_modules or .git
Excluded(p) == \E k \in 1..Len(Segments(p)) : Segments(p)[k] \in {S_nm, S_git}

\* p lies below a pattern that is a directory on disk
BelowEditableDir(p) ==
  \E i \in 1..Len(editable) :
    /\ statSync(fs, NodeOf(PatternLocs[i])) = "dir"
    /\ Below(PatternLocs[i], Location(p))

\* the files on disk below an editable directory whose path has such a segment
HeldFiles ==
  { p \in RelativePaths :
      /\ Excluded(p) /\ BelowEditableDir(p)
      /\ statSync(fs, NodeOf(Location(p))) = "file" }

\* the paths a client may ask for: the request paths and a name below each
Askable == RelativePaths \cup { P(p, S_a) : p \in RelativePaths }

(* C29: isPathAllowed leaves no node_modules or .git path out: a path      *)
(* below an editable directory is allowed also when it has such a segment, *)
(* and so, whenever such a subtree holds a file, the allowed paths are     *)
(* strictly more than the listed ones: every listed path is allowed and    *)
(* some allowed path is not listed.                                        *)
C29_AllowedExceedsListed ==
  res = NoRes =>
    LET listed == Range(resolveEditableFiles(fs, Patterns, projectRoot))
    IN /\ \A p \in RelativePaths :
            (Excluded(p) /\ BelowEditableDir(p)) => Allowed(p)
       /\ HeldFiles # {} =>
            /\ \A p \in listed : Allowed(p)
            /\ \E p \in Askable : Allowed(p) /\ p \notin listed

----------------------------------------------------------------------------
\* the entry the n-th call of push stores
Pushed(n) ==
  [level |-> LevelOf(n), text |-> replaceAnsi(TextOf(n)), timestamp |-> ClockAt(n)]

\* the time a request on /via/logs asks for entries after, 0 for all entries
SinceOf(r) ==
  IF r.path = Str(<<"1">>) THEN 1
  ELSE IF r.path = Str(<<"5", "0">>) THEN 50
  ELSE 0

\* the entries of t that are later than since, in the order of t
RECURSIVE Later(_, _)
Later(t, since) ==
  IF Len(t) = 0 THEN <<>>
  ELSE (IF Head(t).timestamp > since THEN <<Head(t)>> ELSE <<>>)
         \o Later(Tail(t), since)

(* C30: after any number of calls of push the buffer holds at most 100     *)
(* entries, and they are the entries of the latest calls in the order of   *)
(* the calls, the oldest dropped first; a GET on /via/logs answers them in *)
(* that order, those after the time asked for when one is given, with a    *)
(* count that is the number of entries of the answer.                      *)
C30_RingBuffer ==
  LET held == logBuffer._entries
      k == Len(held)
  IN /\ k <= MAX_LOG_LINES
     /\ k = (IF logged < MAX_LOG_LINES THEN logged ELSE MAX_LOG_LINES)
     /\ \A i \in 1..k : held[i] = Pushed(logged - k + i)
     /\ (res.route = "logs" /\ res.method = "GET") =>
          /\ res.ended = 1
          /\ res.body.fields = {"entries", "count"}
          /\ res.body.count = Len(res.body.entries)
          /\ res.body.entries =
               (IF SinceOf(res) = 0 THEN held ELSE Later(held, SinceOf(res)))

\* more than 100 messages were logged and a GET without a time was answered
C30_Witness ==
  /\ logged > MAX_LOG_LINES
  /\ res.route = "logs" /\ res.method = "GET" /\ res.path = Null
  /\ res.body.count = MAX_LOG_LINES

====
